---- MODULE Spec2Model ----
(***************************************************************************)
(* Cricket ball tracker: the delivery segmenter, the ball tracker and the  *)
(* per-frame pipeline of the live-tracking page, as state machines.        *)
(*                                                                         *)
(* Python objects are records whose fields carry the attribute names of    *)
(* the source.  A Python list that is shared by reference (the tracker's   *)
(* detection and impact lists, which a Trajectory also points to) lives in *)
(* `heap` and is named by its index there.  None is the record None.       *)
(***************************************************************************)
EXTENDS Integers, Sequences, FiniteSets, TLC

VARIABLES
    segmenter,   \* the DeliverySegmenter object
    tracker,     \* the BallTracker object
    heap,        \* the list objects, by reference
    processor,   \* the BallTrackingProcessor object (capture callback side)
    app,         \* the LiveTrackingApp object (UI side)
    calls,       \* number of operations performed so far (the frame clock)
    last_op,     \* name of the operation performed last
    detection,   \* argument of the latest update(): a detection or None
    returned,    \* value returned by the latest operation
    held,        \* a Trajectory the caller of the tracker has kept, or None
    args         \* the arguments of the latest decision-engine or calibrator call

vars == <<segmenter, tracker, heap, processor, app, calls, last_op, detection,
          returned, held, args>>

----------------------------------------------------------------------------
(* Bounds *)

\* calls made on a segmenter in one behaviour
MaxCalls == 7
\* calls made on a tracker in one behaviour
MaxTrackerCalls == 5
\* frames the capture callback receives in one behaviour
MaxFrames == 4
\* idle_frames of the page's segmenter, which the page constructs with the
\* default of 15
PageIdleFrames == 1
\* reruns of the page that read the processor in one behaviour
MaxPolls == 2
\* reset() calls in one behaviour
MaxResets == 1
\* the idle_frames values a segmenter is constructed with are 0..MaxIdleFrames
MaxIdleFrames == 2
\* the min_frames values a segmenter is constructed with are 1..MaxMinFrames
MaxMinFrames == 2

None == [none |-> TRUE]

\* A BallDetection object; id is the object's identity (the ordinal of the
\* call that created it).
BallDetection(id, frame_number, x, y) ==
    [id |-> id, frame_number |-> frame_number, x |-> x, y |-> y]

----------------------------------------------------------------------------
(* DeliverySegmenter *)

DeliverySegmenter_init(min_frames, idle_frames) ==
    [ min_frames              |-> min_frames,
      idle_frames             |-> idle_frames,
      current_state           |-> "idle",
      consecutive_idle_frames |-> 0,
      delivery_start_frame    |-> -1,
      delivery_end_frame      |-> -1,
      is_tracking             |-> FALSE ]

\* update(detection) in state idle: start of delivery
OnDetectionWhenIdle(s, d) ==
    [s EXCEPT !.current_state = "tracking",
              !.delivery_start_frame = d.frame_number,
              !.consecutive_idle_frames = 0,
              !.is_tracking = TRUE]

\* mutant of OnDetectionWhenTracking: the idle counter is not reset
OnDetectionWhenTracking_KeepCounter(s, d) == s

\* update(detection) in state tracking: continue tracking
OnDetectionWhenTracking(s, d) ==
    [s EXCEPT !.consecutive_idle_frames = 0]

\* mutant of OnDetectionWhenComplete: the detection starts the next delivery
OnDetectionWhenComplete_Rearm(s, d) ==
    [s EXCEPT !.current_state = "tracking",
              !.delivery_start_frame = d.frame_number,
              !.consecutive_idle_frames = 0,
              !.is_tracking = TRUE]

\* update(detection) in state complete: wait for the next delivery
OnDetectionWhenComplete(s, d) ==
    [s EXCEPT !.current_state = "idle",
              !.consecutive_idle_frames = 0,
              !.is_tracking = FALSE]

\* mutant of IdleThresholdReached: the threshold must be exceeded
IdleThresholdReached_Strict(s, counter) == counter > s.idle_frames

\* the idle-threshold test of update(None), made on the counter as already
\* incremented
IdleThresholdReached(s, counter) == counter >= s.idle_frames

\* mutant of OnNoDetectionWhenTracking: the completed delivery stays active
OnNoDetectionWhenTracking_StaysActive(s) ==
    LET counter == s.consecutive_idle_frames + 1 IN
    IF IdleThresholdReached(s, counter)
    THEN [s EXCEPT !.consecutive_idle_frames = counter,
                   !.current_state = "complete"]
    ELSE [s EXCEPT !.consecutive_idle_frames = counter]

\* update(None) in state tracking
OnNoDetectionWhenTracking(s) ==
    LET counter == s.consecutive_idle_frames + 1 IN
    IF IdleThresholdReached(s, counter)
    THEN [s EXCEPT !.consecutive_idle_frames = counter,
                   !.current_state = "complete",
                   !.is_tracking = FALSE]
    ELSE [s EXCEPT !.consecutive_idle_frames = counter]

\* update(detection): the segmenter after the call; the call returns its
\* current_state
DeliverySegmenter_update(s, d) ==
    IF d # None
    THEN CASE s.current_state = "idle"     -> OnDetectionWhenIdle(s, d)
           [] s.current_state = "tracking" -> OnDetectionWhenTracking(s, d)
           [] s.current_state = "complete" -> OnDetectionWhenComplete(s, d)
    ELSE CASE s.current_state = "tracking" -> OnNoDetectionWhenTracking(s)
           [] s.current_state = "idle"     -> s
           [] s.current_state = "complete" -> s

DeliverySegmenter_is_delivery_active(s) == s.is_tracking

DeliverySegmenter_get_delivery_frames(s) ==
    <<s.delivery_start_frame, s.delivery_end_frame>>

----------------------------------------------------------------------------
(* Numbers.  A Python float is a fixed-point integer in hundredths; NaN is  *)
(* the float a 0/0 division of numpy yields.                                *)

RECURSIVE SqrtIter(_, _, _)
SqrtIter(n, lo, hi) ==
    IF lo = hi THEN lo
    ELSE LET mid == (lo + hi + 1) \div 2 IN
         IF mid * mid <= n THEN SqrtIter(n, mid, hi) ELSE SqrtIter(n, lo, mid - 1)

\* floor of the square root
ISqrt(n) == SqrtIter(n, 0, 46340)

\* np.sqrt(n), in hundredths
Sqrt100(n) == ISqrt(n * 10000)

Abs(n) == IF n < 0 THEN -n ELSE n
Max(a, b) == IF a >= b THEN a ELSE b
Min(a, b) == IF a <= b THEN a ELSE b
Last(q) == q[Len(q)]

NaN == -1

\* an Optional[float] that is not None
Some(v) == [some |-> v]

----------------------------------------------------------------------------
(* SessionConfig: the calibration the page was set up with *)

Config ==
    [ pitch_config   |-> [pixels_per_meter |-> 10],
      batting_stumps |-> [ off_stump_px    |-> <<10, 10>>,
                           middle_stump_px |-> <<12, 10>>,
                           leg_stump_px    |-> <<14, 10>>,
                           stump_width_px  |-> 4 ],
      wall_boundary  |-> [polygon_points |-> << <<25, 0>>, <<35, 0>>, <<35, 8>>, <<25, 8>> >>] ]

\* the positions the detector reports a ball at: on the stumps, inside the
\* wall boundary
Positions == { <<12, 10>>, <<30, 4>> }

----------------------------------------------------------------------------
(* The Kalman filter of filterpy.  The model keeps the velocity part        *)
(* <<vx, vy>> of the state vector: v is the velocity the last measurement   *)
(* update left, predicted the number of predict steps applied to it since.  *)
(* What a measurement update makes of the velocity is the filter's          *)
(* arithmetic: the model draws it from KfOutcomes.                          *)

VelX == {0}
VelY == {-40, 0, 40}
KfOutcomes == VelX \X VelY

\* kf.x = np.array([0, 0, 0, 0, 0, 0]): the all-zero state, which predict
\* maps to itself
KfZero == [v |-> <<0, 0>>, predicted |-> 0, zero |-> TRUE]

\* kf.update(z), with the velocity u it yields
KfUpdate(x, u) == [v |-> u, predicted |-> 0, zero |-> FALSE]

\* kf.predict()
KfPredict(x) == IF x.zero THEN x ELSE [x EXCEPT !.predicted = @ + 1]

----------------------------------------------------------------------------
(* BallTracker *)

max_history_length == 5

\* the tracker of BallTracker(fps) whose two lists are heap[det_ref] and
\* heap[imp_ref]
BallTracker_init(fps, det_ref, imp_ref) ==
    [ fps                    |-> fps,
      kf_x                   |-> KfZero,
      trajectory_detections  |-> det_ref,
      speed_kmh              |-> None,
      bounce_point           |-> None,
      impact_events          |-> imp_ref,
      deviation_px           |-> 0,
      is_complete            |-> FALSE,
      bounce_detected        |-> FALSE,
      last_vertical_velocity |-> 0,
      velocity_history       |-> <<>> ]

\* the sign-flip test of the bounce check
IsBounce(last_vy, current_vy) == last_vy > 0 /\ current_vy < 0

\* mutant of CheckBounce: no latch, every sign flip moves the bounce point
CheckBounce_NoLatch(t, d, current_vy) ==
    IF IsBounce(t.last_vertical_velocity, current_vy)
    THEN [t EXCEPT !.bounce_point = d,
                   !.bounce_detected = TRUE,
                   !.last_vertical_velocity = current_vy]
    ELSE [t EXCEPT !.last_vertical_velocity = current_vy]

\* the "check for bounce" block of update(), current_vy being kf.x[3]
CheckBounce(t, d, current_vy) ==
    IF ~t.bounce_detected
    THEN IF IsBounce(t.last_vertical_velocity, current_vy)
         THEN [t EXCEPT !.bounce_point = d,
                        !.bounce_detected = TRUE,
                        !.last_vertical_velocity = current_vy]
         ELSE [t EXCEPT !.last_vertical_velocity = current_vy]
    ELSE t

\* the "store velocity" block of update()
StoreVelocity(history, v) ==
    LET h == Append(history, v) IN
    IF Len(h) > max_history_length THEN Tail(h) ELSE h

\* mutant of AppendDetection: the detection is put at the front
AppendDetection_Front(h, t, d) ==
    [h EXCEPT ![t.trajectory_detections] = <<d>> \o @]

\* trajectory_detections.append(detection)
AppendDetection(h, t, d) ==
    [h EXCEPT ![t.trajectory_detections] = Append(@, d)]

\* update(detection), u being the velocity the measurement update yields:
\* the tracker and the heap after the call
BallTracker_update(t, h, d, u) ==
    IF d # None
    THEN LET x1 == KfUpdate(t.kf_x, u)
             t1 == CheckBounce(t, d, x1.v[2])
         IN  [ t |-> [t1 EXCEPT !.velocity_history = StoreVelocity(@, x1.v),
                                !.kf_x = KfPredict(x1)],
               h |-> AppendDetection(h, t, d) ]
    ELSE [ t |-> [t EXCEPT !.kf_x = KfPredict(@)], h |-> h ]

\* the speed block of get_trajectory(): the local `speed`
TrajectorySpeed(t, dets, pixels_per_meter) ==
    IF Len(dets) > 1 /\ t.speed_kmh = None
    THEN LET dx == Last(dets).x - dets[1].x
             dy == Last(dets).y - dets[1].y
             distance_pixels == Sqrt100(dx * dx + dy * dy)
             dt_frames == Len(dets) - 1
             \* distance_pixels / (dt_frames / fps)
             pixels_per_second == (distance_pixels * t.fps) \div dt_frames
         IN  IF pixels_per_meter # None /\ pixels_per_meter.some > 0
             THEN Some((pixels_per_second * 36) \div (pixels_per_meter.some * 10))
             ELSE Some(pixels_per_second)
    ELSE t.speed_kmh

\* distance of interior point p from the chord start-end; 0/0 when the
\* chord has no length
LineDist(p, start, end) ==
    LET num == Abs((end.y - start.y) * p.x - (end.x - start.x) * p.y
                   + end.x * start.y - end.y * start.x)
        den == Sqrt100((end.y - start.y) * (end.y - start.y)
                       + (end.x - start.x) * (end.x - start.x))
    IN  IF den = 0 THEN NaN ELSE (num * 10000) \div den

RECURSIVE TotalDeviation(_, _)
TotalDeviation(dets, i) ==
    IF i > Len(dets) - 1 THEN 0
    ELSE LET d == LineDist(dets[i], dets[1], Last(dets))
             rest == TotalDeviation(dets, i + 1)
         IN  IF d = NaN \/ rest = NaN THEN NaN ELSE d + rest

\* the deviation block of get_trajectory(): the value self.deviation_px has
\* after it
TrajectoryDeviation(t, dets) ==
    IF Len(dets) >= 3
    THEN LET total == TotalDeviation(dets, 2) IN
         IF total = NaN THEN NaN ELSE total \div Max(1, Len(dets) - 2)
    ELSE t.deviation_px

\* the Trajectory(...) that get_trajectory() constructs: the two lists by
\* reference, the state vector as the copy tolist() makes
Trajectory(t, speed, deviation) ==
    [ delivery_id  |-> "current",
      detections   |-> t.trajectory_detections,
      speed_kmh    |-> speed,
      bounce_point |-> t.bounce_point,
      impact_points |-> t.impact_events,
      deviation_px |-> deviation,
      is_complete  |-> t.is_complete,
      kalman_state |-> t.kf_x ]

\* get_trajectory(pixels_per_meter): the tracker after the call and the
\* Trajectory returned
BallTracker_get_trajectory(t, h, pixels_per_meter) ==
    LET dets == h[t.trajectory_detections]
        deviation == TrajectoryDeviation(t, dets)
        t1 == [t EXCEPT !.deviation_px = deviation]
    IN  [ t |-> t1,
          traj |-> Trajectory(t1, TrajectorySpeed(t, dets, pixels_per_meter), deviation) ]

\* one edge p1-p2 of the ray casting loop: whether the ray from (x, y)
\* crosses it.  x <= xinters is compared without the division.
EdgeCrossed(x, y, p1, p2) ==
    /\ y > Min(p1[2], p2[2])
    /\ y <= Max(p1[2], p2[2])
    /\ x <= Max(p1[1], p2[1])
    /\ \/ p1[1] = p2[1]
       \/ /\ p1[2] # p2[2]
          /\ LET num == (y - p1[2]) * (p2[1] - p1[1])
                 den == p2[2] - p1[2]
             IN  IF den > 0 THEN (x - p1[1]) * den <= num
                            ELSE (x - p1[1]) * den >= num

RECURSIVE RayCast(_, _, _, _, _)
RayCast(x, y, polygon, i, inside) ==
    IF i > Len(polygon) THEN inside
    ELSE LET p1 == polygon[i]
             p2 == polygon[(i % Len(polygon)) + 1]
         IN  RayCast(x, y, polygon, i + 1,
                     IF EdgeCrossed(x, y, p1, p2) THEN ~inside ELSE inside)

\* _is_in_boundary(detection, wall_boundary)
BallTracker_is_in_boundary(d, wall_boundary) ==
    IF wall_boundary = None \/ Len(wall_boundary.polygon_points) < 3
    THEN FALSE
    ELSE RayCast(d.x, d.y, wall_boundary.polygon_points, 1, FALSE)

\* mutant of PitchCalibrator_is_in_stump_zone: the tolerance narrows the zone
PitchCalibrator_is_in_stump_zone_Narrowing(stumps, pos, tolerance) ==
    LET xs == {stumps.off_stump_px[1], stumps.middle_stump_px[1], stumps.leg_stump_px[1]}
        lo == CHOOSE a \in xs : \A b \in xs : a <= b
        hi == CHOOSE a \in xs : \A b \in xs : a >= b
        extra == (stumps.stump_width_px * tolerance - stumps.stump_width_px * 100) \div 200
    IN  lo + extra <= pos[1] /\ pos[1] <= hi - extra

\* PitchCalibrator.is_in_stump_zone(position_px, tolerance), tolerance in
\* hundredths
PitchCalibrator_is_in_stump_zone(stumps, pos, tolerance) ==
    LET xs == {stumps.off_stump_px[1], stumps.middle_stump_px[1], stumps.leg_stump_px[1]}
        lo == CHOOSE a \in xs : \A b \in xs : a <= b
        hi == CHOOSE a \in xs : \A b \in xs : a >= b
        \* (effective_width - stump_width_px) // 2
        extra == (stumps.stump_width_px * tolerance - stumps.stump_width_px * 100) \div 200
    IN  lo - extra <= pos[1] /\ pos[1] <= hi + extra

\* squared distance of detection d from point p
Dist2(d, p) == (d.x - p[1]) * (d.x - p[1]) + (d.y - p[2]) * (d.y - p[2])

\* mutant of ImpactType: the wall boundary is tested before the ground
ImpactType_WallFirst(d, config) ==
    IF config # None
    THEN LET st == config.batting_stumps
             anchors == {st.off_stump_px, st.middle_stump_px, st.leg_stump_px}
         IN  IF \E a \in anchors : Dist2(d, a) <= st.stump_width_px * st.stump_width_px
             THEN "stumps"
             ELSE IF PitchCalibrator_is_in_stump_zone(st, <<d.x, d.y>>, 150)
             THEN "pad"
             ELSE IF config.wall_boundary # None
                     /\ BallTracker_is_in_boundary(d, config.wall_boundary)
             THEN "wall"
             ELSE IF \A a \in anchors : d.y > a[2]
             THEN "ground"
             ELSE "unknown"
    ELSE "unknown"

\* the impact type detect_impact() gives the latest detection
ImpactType(d, config) ==
    IF config # None
    THEN LET st == config.batting_stumps
             anchors == {st.off_stump_px, st.middle_stump_px, st.leg_stump_px}
         IN  IF \E a \in anchors : Dist2(d, a) <= st.stump_width_px * st.stump_width_px
             THEN "stumps"
             ELSE IF PitchCalibrator_is_in_stump_zone(st, <<d.x, d.y>>, 150)
             THEN "pad"
             ELSE IF \A a \in anchors : d.y > a[2]
             THEN "ground"
             ELSE IF config.wall_boundary # None
                     /\ BallTracker_is_in_boundary(d, config.wall_boundary)
             THEN "wall"
             ELSE "unknown"
    ELSE "unknown"

\* np.linalg.norm(recent_velocity - previous_velocity), in hundredths
VelocityChange(history) ==
    LET a == history[Len(history)]
        b == history[Len(history) - 1]
    IN  Sqrt100((a[1] - b[1]) * (a[1] - b[1]) + (a[2] - b[2]) * (a[2] - b[2]))

\* mutant of ImpactEvent: the confidence is not capped at 1.0
ImpactEvent_Uncapped(d, impact_type, velocity_change, is_in_boundary) ==
    [ impact_type     |-> impact_type,
      position_px     |-> <<d.x, d.y>>,
      frame_number    |-> d.frame_number,
      confidence      |-> velocity_change \div 100,
      velocity_change |-> velocity_change,
      is_in_boundary  |-> is_in_boundary ]

\* ImpactEvent(...) as detect_impact() constructs it, confidence =
\* min(1.0, velocity_change / 100.0) in hundredths
ImpactEvent(d, impact_type, velocity_change, is_in_boundary) ==
    [ impact_type     |-> impact_type,
      position_px     |-> <<d.x, d.y>>,
      frame_number    |-> d.frame_number,
      confidence      |-> Min(100, velocity_change \div 100),
      velocity_change |-> velocity_change,
      is_in_boundary  |-> is_in_boundary ]

\* detect_impact(threshold, calibrator, config): the heap after the call
\* and the value returned (calibrator and config are given together)
BallTracker_detect_impact(t, h, threshold, config) ==
    IF Len(t.velocity_history) < 2
    THEN [h |-> h, ret |-> None]
    ELSE LET velocity_change == VelocityChange(t.velocity_history)
             dets == h[t.trajectory_detections]
         IN  IF velocity_change > threshold * 100 /\ Len(dets) > 0
             THEN LET latest_detection == Last(dets)
                      in_boundary ==
                          /\ config # None
                          /\ config.wall_boundary # None
                          /\ BallTracker_is_in_boundary(latest_detection, config.wall_boundary)
                      impact == ImpactEvent(latest_detection,
                                            ImpactType(latest_detection, config),
                                            velocity_change, in_boundary)
                  IN  [ h |-> [h EXCEPT ![t.impact_events] = Append(@, impact)],
                        ret |-> impact ]
             ELSE [h |-> h, ret |-> None]

\* reset(): the tracker and the heap after the call; the two lists are new
\* list objects
BallTracker_reset(t, h) ==
    [ t |-> [t EXCEPT !.kf_x = KfZero,
                      !.trajectory_detections = Len(h) + 1,
                      !.speed_kmh = None,
                      !.bounce_point = None,
                      !.impact_events = Len(h) + 2,
                      !.deviation_px = 0,
                      !.is_complete = FALSE,
                      !.bounce_detected = FALSE,
                      !.last_vertical_velocity = 0,
                      !.velocity_history = <<>>],
      h |-> h \o << <<>>, <<>> >> ]

----------------------------------------------------------------------------
(* Construction *)

\* BallTrackingProcessor.__init__
BallTrackingProcessor_init ==
    [ current_frame      |-> None,
      current_detection  |-> None,
      current_trajectory |-> None ]

\* LiveTrackingApp.__init__: the tracking states
LiveTrackingApp_init ==
    [ current_frame                  |-> None,
      current_detection              |-> None,
      current_trajectory             |-> None,
      current_frame_number           |-> 0,
      current_wide_decision          |-> None,
      current_caught_behind_decision |-> None ]

\* BallTracker(fps=30.0)
fps == 30

\* DeliverySegmenter(): the default min_frames
DefaultMinFrames == 10

\* the objects LiveTrackingApp.__init__ constructs
Init ==
    /\ segmenter = DeliverySegmenter_init(DefaultMinFrames, PageIdleFrames)
    /\ tracker = BallTracker_init(fps, 1, 2)
    /\ heap = << <<>>, <<>> >>
    /\ processor = BallTrackingProcessor_init
    /\ app = LiveTrackingApp_init
    /\ calls = 0
    /\ last_op = "init"
    /\ detection = None
    /\ returned = None
    /\ held = None
    /\ args = None

----------------------------------------------------------------------------
(* The segmenter driven by a caller that numbers the frames 0, 1, 2, ... *)

SegUpdateDetection ==
    /\ calls < MaxCalls
    /\ \E p \in Positions :
         LET d == BallDetection(calls, calls, p[1], p[2]) IN
         /\ segmenter' = DeliverySegmenter_update(segmenter, d)
         /\ detection' = d
    /\ returned' = [state |-> segmenter'.current_state]
    /\ last_op' = "segmenter.update"
    /\ calls' = calls + 1
    /\ UNCHANGED <<args, tracker, heap, processor, app, held>>

SegUpdateNone ==
    /\ calls < MaxCalls
    /\ segmenter' = DeliverySegmenter_update(segmenter, None)
    /\ detection' = None
    /\ returned' = [state |-> segmenter'.current_state]
    /\ last_op' = "segmenter.update"
    /\ calls' = calls + 1
    /\ UNCHANGED <<args, tracker, heap, processor, app, held>>

SegNext == SegUpdateDetection \/ SegUpdateNone

\* a segmenter constructed with any min_frames and idle_frames
SegInit ==
    /\ \E m \in 1..MaxMinFrames, i \in 0..MaxIdleFrames :
           segmenter = DeliverySegmenter_init(m, i)
    /\ tracker = BallTracker_init(fps, 1, 2)
    /\ heap = << <<>>, <<>> >>
    /\ processor = BallTrackingProcessor_init
    /\ app = LiveTrackingApp_init
    /\ calls = 0
    /\ last_op = "init"
    /\ detection = None
    /\ returned = None
    /\ held = None
    /\ args = None

SegSpec == SegInit /\ [][SegNext]_vars

----------------------------------------------------------------------------
(* The tracker driven by a caller that numbers the frames 0, 1, 2, ... *)

TrkUpdateDetection ==
    /\ calls < MaxTrackerCalls
    /\ \E p \in Positions, u \in KfOutcomes :
         LET d == BallDetection(calls, calls, p[1], p[2])
             r == BallTracker_update(tracker, heap, d, u)
         IN  /\ tracker' = r.t
             /\ heap' = r.h
             /\ detection' = d
    /\ returned' = None
    /\ last_op' = "tracker.update"
    /\ calls' = calls + 1
    /\ UNCHANGED <<args, segmenter, processor, app, held>>

TrkUpdateNone ==
    /\ calls < MaxTrackerCalls
    /\ LET r == BallTracker_update(tracker, heap, None, <<0, 0>>) IN
         /\ tracker' = r.t
         /\ heap' = r.h
    /\ detection' = None
    /\ returned' = None
    /\ last_op' = "tracker.update"
    /\ calls' = calls + 1
    /\ UNCHANGED <<args, segmenter, processor, app, held>>

\* detect_impact() with its default threshold and no calibration, or as
\* the capture callback calls it
TrkDetectImpact ==
    /\ calls < MaxTrackerCalls
    /\ \E a \in { [threshold |-> 50, config |-> None],
                  [threshold |-> 30, config |-> Config] } :
         LET r == BallTracker_detect_impact(tracker, heap, a.threshold, a.config) IN
         /\ heap' = r.h
         /\ returned' = r.ret
    /\ last_op' = "tracker.detect_impact"
    /\ calls' = calls + 1
    /\ UNCHANGED <<args, segmenter, tracker, processor, app, detection, held>>

\* get_trajectory(); the caller keeps the Trajectory returned
TrkGetTrajectory ==
    /\ calls < MaxTrackerCalls
    /\ \E ppm \in {None, Some(Config.pitch_config.pixels_per_meter)} :
         LET r == BallTracker_get_trajectory(tracker, heap, ppm) IN
         /\ tracker' = r.t
         /\ returned' = r.traj
         /\ held' = r.traj
    /\ last_op' = "tracker.get_trajectory"
    /\ calls' = calls + 1
    /\ UNCHANGED <<args, segmenter, heap, processor, app, detection>>

TrkReset ==
    /\ calls < MaxTrackerCalls
    /\ Len(heap) < 2 + 2 * MaxResets
    /\ LET r == BallTracker_reset(tracker, heap) IN
         /\ tracker' = r.t
         /\ heap' = r.h
    /\ returned' = None
    /\ last_op' = "tracker.reset"
    /\ calls' = calls + 1
    /\ UNCHANGED <<args, segmenter, processor, app, detection, held>>

TrackerNext ==
    \/ TrkUpdateDetection
    \/ TrkUpdateNone
    \/ TrkDetectImpact
    \/ TrkGetTrajectory
    \/ TrkReset

TrackerSpec == Init /\ [][TrackerNext]_vars

----------------------------------------------------------------------------
(* The live-tracking page: the capture callback and the page's rerun *)

\* BallDetector.detect(frame_triplet) on the frame-th frame: no ball (or a
\* failure, which recv turns into None), or a ball at some position, with
\* the frame_number the detector gives every detection
BallDetector_detect(frame) ==
    {None} \cup { BallDetection(frame, 0, p[1], p[2]) : p \in Positions }

\* BallTrackingProcessor.recv(frame)
Recv ==
    /\ calls < MaxFrames
    /\ \E d \in BallDetector_detect(calls) :
       \E u \in (IF d = None THEN {<<0, 0>>} ELSE KfOutcomes) :
         LET r1 == BallTracker_update(tracker, heap, d, u)
             r2 == BallTracker_detect_impact(r1.t, r1.h, 30, Config)
             r3 == BallTracker_get_trajectory(r1.t, r2.h,
                                              Some(Config.pitch_config.pixels_per_meter))
         IN  /\ tracker' = r3.t
             /\ heap' = r2.h
             /\ segmenter' = DeliverySegmenter_update(segmenter, d)
             /\ detection' = d
             /\ processor' = [ current_frame      |-> [frame |-> calls],
                               current_detection  |-> d,
                               current_trajectory |-> r3.traj ]
    /\ returned' = None
    /\ last_op' = "recv"
    /\ calls' = calls + 1
    /\ UNCHANGED <<args, app, held>>

\* LiveTrackingApp.run(): the part of a rerun that reads the processor,
\* once it has a frame.  run() reads the segmenter nowhere and calls neither
\* evaluate_wide_auto() nor evaluate_caught_behind_auto(), which have no
\* caller in the repository; nothing calls BallTracker.reset() either.
Run ==
    /\ app.current_frame_number < MaxPolls
    /\ processor.current_frame # None
    /\ app' = [app EXCEPT !.current_frame = processor.current_frame,
                          !.current_frame_number = @ + 1,
                          !.current_detection = processor.current_detection,
                          !.current_trajectory = processor.current_trajectory]
    /\ last_op' = "run"
    /\ UNCHANGED <<args, segmenter, tracker, heap, processor, calls, detection, returned, held>>

Next == Recv \/ Run

Spec == Init /\ [][Next]_vars

----------------------------------------------------------------------------
(* Claims about the segmenter, under SegSpec *)

\* the step is a call update(detection) with a detection
SegCalledWithDetection ==
    calls' = calls + 1 /\ last_op' = "segmenter.update" /\ detection' # None

\* the step is a call update(None)
SegCalledWithNone ==
    calls' = calls + 1 /\ last_op' = "segmenter.update" /\ detection' = None

\* C1 as stated: update(None) in state tracking with the counter held
\* before the call < idle_frames stays tracking and adds one to the
\* counter; complete is entered only when the counter held before the call
\* is already >= idle_frames.
C1_AsStated ==
    [][ (SegCalledWithNone /\ segmenter.current_state = "tracking") =>
          /\ segmenter.consecutive_idle_frames < segmenter.idle_frames =>
                /\ segmenter'.current_state = "tracking"
                /\ segmenter'.consecutive_idle_frames = segmenter.consecutive_idle_frames + 1
          /\ segmenter'.current_state = "complete" =>
                segmenter.consecutive_idle_frames >= segmenter.idle_frames ]_vars

\* C1 amended: update(None) in state tracking always adds one to the idle
\* counter, and the threshold is tested on the counter so incremented: the
\* state stays tracking when counter + 1 < idle_frames and becomes complete
\* when counter + 1 >= idle_frames; complete is entered by no other call.
C1_IdleCounter ==
    [][ /\ (SegCalledWithNone /\ segmenter.current_state = "tracking") =>
             /\ segmenter'.consecutive_idle_frames = segmenter.consecutive_idle_frames + 1
             /\ segmenter.consecutive_idle_frames + 1 < segmenter.idle_frames =>
                   segmenter'.current_state = "tracking"
             /\ segmenter.consecutive_idle_frames + 1 >= segmenter.idle_frames =>
                   /\ segmenter'.current_state = "complete"
                   /\ returned'.state = "complete"
        /\ (segmenter.current_state # "complete" /\ segmenter'.current_state = "complete") =>
             (SegCalledWithNone /\ segmenter.current_state = "tracking") ]_vars

\* a delivery completed by its second empty frame, after one that left it
\* tracking
C1_Witness ==
    /\ segmenter.current_state = "complete"
    /\ segmenter.idle_frames = 2
    /\ segmenter.consecutive_idle_frames = 2
    /\ detection = None

\* C2: update(detection) in state complete returns idle, does not enter
\* tracking and leaves delivery_start_frame alone, so that detection's
\* frame is not recorded as a start frame; the start frame of the next
\* delivery is the frame_number of the detection of a following call, made
\* in state idle.
C2_CompleteToIdle ==
    [][ /\ (SegCalledWithDetection /\ segmenter.current_state = "complete") =>
             /\ segmenter'.current_state = "idle"
             /\ returned'.state = "idle"
             /\ ~DeliverySegmenter_is_delivery_active(segmenter')
             /\ segmenter'.delivery_start_frame = segmenter.delivery_start_frame
             /\ segmenter'.delivery_start_frame # detection'.frame_number
        /\ (SegCalledWithDetection /\ segmenter.current_state = "idle") =>
             segmenter'.delivery_start_frame = detection'.frame_number
        /\ segmenter'.delivery_start_frame # segmenter.delivery_start_frame =>
             (SegCalledWithDetection /\ segmenter.current_state = "idle") ]_vars

\* the segmenter is idle again after a delivery, on the detection that
\* ended the complete state
C2_Witness ==
    /\ segmenter.current_state = "idle"
    /\ segmenter.delivery_start_frame >= 0
    /\ detection # None
    /\ detection.frame_number > segmenter.delivery_start_frame

\* C3: update(detection) in state idle moves to tracking, records
\* detection.frame_number as the start frame and zeroes the idle counter;
\* in state tracking it stays tracking, zeroes the idle counter and leaves
\* the start frame alone.
C3_DetectionTransitions ==
    [][ SegCalledWithDetection =>
          /\ segmenter.current_state = "idle" =>
                /\ segmenter'.current_state = "tracking"
                /\ segmenter'.delivery_start_frame = detection'.frame_number
                /\ segmenter'.consecutive_idle_frames = 0
          /\ segmenter.current_state = "tracking" =>
                /\ segmenter'.current_state = "tracking"
                /\ segmenter'.consecutive_idle_frames = 0
                /\ segmenter'.delivery_start_frame = segmenter.delivery_start_frame ]_vars

\* a delivery being tracked, on a detection later than the one that
\* started it
C3_Witness ==
    /\ segmenter.current_state = "tracking"
    /\ detection # None
    /\ segmenter.consecutive_idle_frames = 0
    /\ detection.frame_number > segmenter.delivery_start_frame + 1

\* C4 as stated: when the segmenter goes to complete, get_delivery_frames()
\* is (start frame of the delivery, frame of its last detection +
\* idle_frames).  The completing call is for frame `calls`, and the last
\* detection came consecutive_idle_frames frames before it.
C4_AsStated ==
    [][ (segmenter.current_state = "tracking" /\ segmenter'.current_state = "complete") =>
          DeliverySegmenter_get_delivery_frames(segmenter') =
             << segmenter.delivery_start_frame,
                (calls - segmenter'.consecutive_idle_frames) + segmenter.idle_frames >> ]_vars

----------------------------------------------------------------------------
(* Claims about the tracker, under TrackerSpec *)

\* the step is a call update(detection) with a detection
TrkCalledWithDetection ==
    calls' = calls + 1 /\ last_op' = "tracker.update" /\ detection' # None

\* the step is a call update(None)
TrkCalledWithNone ==
    calls' = calls + 1 /\ last_op' = "tracker.update" /\ detection' = None

\* the step is a call reset()
TrkCalledReset ==
    calls' = calls + 1 /\ last_op' = "tracker.reset"

\* the filtered vertical velocity the latest update with a detection left,
\* 0 before the first one of a delivery
FilteredVy == IF tracker.velocity_history = <<>> THEN 0
              ELSE Last(tracker.velocity_history)[2]

\* C7: bounce latch.  bounce_point is set only by an update whose filtered
\* vertical velocity goes from positive to negative, and by the first such
\* update, to its detection; once set, no call but reset() changes it;
\* reset() re-arms the latch.
C7_BounceLatch ==
    [][ /\ (tracker.bounce_point # None /\ ~TrkCalledReset) =>
             tracker'.bounce_point = tracker.bounce_point
        /\ (tracker.bounce_point = None /\ tracker'.bounce_point # None) =>
             /\ TrkCalledWithDetection
             /\ tracker'.bounce_point = detection'
             /\ FilteredVy > 0
             /\ FilteredVy' < 0
        /\ (TrkCalledWithDetection /\ tracker.bounce_point = None
              /\ FilteredVy > 0 /\ FilteredVy' < 0) =>
             tracker'.bounce_point = detection'
        /\ TrkCalledReset =>
             /\ tracker'.bounce_point = None
             /\ ~tracker'.bounce_detected
             /\ FilteredVy' = 0
             /\ tracker'.last_vertical_velocity = 0 ]_vars

\* the vertical velocity flipped from positive to negative a second time,
\* on a detection later than the latched bounce point
C7_Witness ==
    /\ tracker.bounce_point # None
    /\ detection # None
    /\ last_op = "tracker.update"
    /\ Len(tracker.velocity_history) = 4
    /\ tracker.velocity_history[3][2] > 0
    /\ tracker.velocity_history[4][2] < 0
    /\ tracker.bounce_point.id < detection.id

\* what get_trajectory().detections holds for tracker t and heap h
DetectionsOf(t, h) == h[BallTracker_get_trajectory(t, h, None).traj.detections]

\* C8: get_trajectory().detections is the sequence of the detections passed
\* to update() since construction or the last reset(), in call order:
\* empty at first and after reset(), one longer by the detection after
\* update(detection), the same after update(None) and after every other
\* call; the Trajectory a call returns holds that sequence.
C8_DetectionsPreserved ==
    [][ /\ calls = 0 => DetectionsOf(tracker, heap) = <<>>
        /\ TrkCalledWithDetection =>
             DetectionsOf(tracker', heap') = Append(DetectionsOf(tracker, heap), detection')
        /\ TrkCalledWithNone =>
             DetectionsOf(tracker', heap') = DetectionsOf(tracker, heap)
        /\ TrkCalledReset => DetectionsOf(tracker', heap') = <<>>
        /\ last_op' \in {"tracker.detect_impact", "tracker.get_trajectory"} =>
             DetectionsOf(tracker', heap') = DetectionsOf(tracker, heap)
        /\ last_op' = "tracker.get_trajectory" =>
             heap'[returned'.detections] = DetectionsOf(tracker, heap) ]_vars

\* an update(None) made after a reset and a later detection
C8_Witness ==
    /\ last_op = "tracker.update"
    /\ detection = None
    /\ Len(heap) > 2
    /\ Len(DetectionsOf(tracker, heap)) = 1
    /\ DetectionsOf(tracker, heap)[1].frame_number > 1

\* what a Trajectory shows its holder: the two lists it points to, its
\* bounce point, its state vector
Contents(tr) ==
    [ detections    |-> heap[tr.detections],
      impact_points |-> heap[tr.impact_points],
      bounce_point  |-> tr.bounce_point,
      kalman_state  |-> tr.kalman_state ]

\* C10 as stated: a Trajectory the caller holds shows the same detections,
\* impact points, bounce point and state vector after every later call on
\* the tracker.
C10_AsStated ==
    [][ (held # None /\ held' = held) => Contents(held)' = Contents(held) ]_vars

----------------------------------------------------------------------------
(* Claims about the live-tracking page, under Spec *)

\* C5 as stated: when the segmenter goes idle -> tracking, the Trajectory
\* the callback then builds holds the detection that starts the delivery
\* and nothing of an earlier delivery: no other detection, no impact event,
\* no bounce point.
C5_AsStated ==
    [][ (segmenter.current_state = "idle" /\ segmenter'.current_state = "tracking") =>
          LET tr == processor'.current_trajectory IN
          /\ heap'[tr.detections] = <<detection'>>
          /\ heap'[tr.impact_points] = <<>>
          /\ tr.bounce_point = None ]_vars

\* C6 as stated, in what it asks of a delivery that is over: when the
\* segmenter leaves complete for the next delivery, the completed delivery
\* has had its WideEngine and its CaughtBehindEngine evaluation.
C6_AsStated ==
    [][ (segmenter.current_state = "complete" /\ segmenter'.current_state # "complete") =>
          /\ app.current_wide_decision # None
          /\ app.current_caught_behind_decision # None ]_vars

\* C9 as stated: the detections of every Trajectory the callback builds
\* have strictly increasing frame_number.
C9_AsStated ==
    processor.current_trajectory # None =>
        LET dets == heap[processor.current_trajectory.detections] IN
        \A i, j \in 1..Len(dets) : i < j => dets[i].frame_number < dets[j].frame_number

----------------------------------------------------------------------------
(* Abandoning a delivery: the capture callback feeds the tracker and the   *)
(* segmenter, and the caller abandons the delivery with the reset the code *)
(* has.  BallTracker.reset() is the only reset in the repository:          *)
(* DeliverySegmenter has no reset method, and update() is its only method  *)
(* that assigns a field.                                                   *)

AbandonNext == Recv \/ TrkReset

AbandonSpec == Init /\ [][AbandonNext]_vars

\* tracker t with heap h holds what BallTracker(fps) holds after
\* construction: every field, and two empty lists
TrackerAsConstructed(t, h) ==
    /\ [t EXCEPT !.trajectory_detections = 1, !.impact_events = 2]
           = BallTracker_init(t.fps, 1, 2)
    /\ h[t.trajectory_detections] = <<>>
    /\ h[t.impact_events] = <<>>

\* segmenter s holds what DeliverySegmenter(min_frames, idle_frames) holds
\* after construction
SegmenterAsConstructed(s) ==
    /\ s = DeliverySegmenter_init(s.min_frames, s.idle_frames)
    /\ ~DeliverySegmenter_is_delivery_active(s)

\* C11 as stated: after the reset that abandons a delivery, the tracker and
\* the segmenter are both as freshly constructed: filter state, detections,
\* bounce latch, last vertical velocity, impact events, velocity history,
\* deviation and speed of the tracker; state idle, idle counter 0, start and
\* end frame -1, not tracking of the segmenter.
C11_AsStated ==
    [][ TrkCalledReset =>
          /\ TrackerAsConstructed(tracker', heap')
          /\ SegmenterAsConstructed(segmenter') ]_vars

----------------------------------------------------------------------------
(* Claims about get_trajectory() called twice, under TrackerSpec *)

\* Python's == on two floats: nan is equal to no float, itself included
FloatEq(a, b) == a # NaN /\ b # NaN /\ a = b

\* the arguments the model calls detect_impact() with
ImpactArgs == { [threshold |-> 50, config |-> None],
                [threshold |-> 30, config |-> Config] }

\* C12 as stated: in every state of the tracker, two consecutive
\* get_trajectory() calls with the same pixels_per_meter return equal
\* speed_kmh, deviation_px and kalman_state, and after the first call
\* detect_impact() and get_trajectory() return what they would have
\* returned without it.
C12_AsStated ==
    \A ppm \in {None, Some(Config.pitch_config.pixels_per_meter)} :
        LET r1 == BallTracker_get_trajectory(tracker, heap, ppm)
            r2 == BallTracker_get_trajectory(r1.t, heap, ppm)
        IN  /\ r2.traj.speed_kmh = r1.traj.speed_kmh
            /\ FloatEq(r2.traj.deviation_px, r1.traj.deviation_px)
            /\ r2.traj.kalman_state = r1.traj.kalman_state
            /\ heap[r2.traj.detections] = heap[r1.traj.detections]
            /\ heap[r2.traj.impact_points] = heap[r1.traj.impact_points]
            /\ r2.traj.bounce_point = r1.traj.bounce_point
            /\ \A a \in ImpactArgs :
                 BallTracker_detect_impact(r1.t, heap, a.threshold, a.config)
                   = BallTracker_detect_impact(tracker, heap, a.threshold, a.config)

----------------------------------------------------------------------------
(* PitchCalibrator.  Pixel coordinates are integers, as the detector makes  *)
(* them; metres, pixel distances and speeds are in hundredths; a raised     *)
(* exception is the record Raise(name) in place of the value returned.      *)

Raise(exception) == [raised |-> exception]

\* r, the outcome of a call, is an exception
IsRaised(r) == "raised" \in DOMAIN r

\* a / b as float division rounds it at the model's resolution: toward zero
TruncDiv(a, b) ==
    IF (a >= 0) = (b > 0) THEN Abs(a) \div Abs(b) ELSE -(Abs(a) \div Abs(b))

\* int(v) of a float v given in hundredths
PyInt(v) == TruncDiv(v, 100)

\* the calibration of the engines' unit tests: stumps at x = 100, 150, 200
StumpPosition ==
    [ off_stump_px    |-> <<100, 200>>,
      middle_stump_px |-> <<150, 200>>,
      leg_stump_px    |-> <<200, 200>>,
      stump_width_px  |-> 100,
      stump_height_px |-> 70 ]

\* PitchConfig(pitch_length, pixels_per_meter=...): the crease anchors keep
\* their default (0, 0)
PitchConfig(pixels_per_meter) ==
    [ batting_crease_px |-> <<0, 0>>,
      pixels_per_meter  |-> pixels_per_meter ]

\* pixels_per_meter of the calibrations checked: negative, the default 0.0
\* of PitchConfig, and two calibrated scales
PixelsPerMeter == {-10, 0, 10, 37}

\* PitchCalibrator(pitch_config, stump_position)
PitchCalibrator(pitch_config, stump_position) ==
    [ pitch_config |-> pitch_config, stump_position |-> stump_position ]

Calibrators ==
    { PitchCalibrator(PitchConfig(ppm), StumpPosition) : ppm \in PixelsPerMeter }

\* pixels_to_meters(pixel_distance): the division raises on a zero divisor,
\* as Python's float division does
PitchCalibrator_pixels_to_meters(calibrator, pixel_distance) ==
    IF calibrator.pitch_config.pixels_per_meter = 0
    THEN Raise("ZeroDivisionError")
    ELSE Some(TruncDiv(pixel_distance, calibrator.pitch_config.pixels_per_meter))

\* meters_to_pixels(meter_distance)
PitchCalibrator_meters_to_pixels(calibrator, meter_distance) ==
    meter_distance * calibrator.pitch_config.pixels_per_meter

\* speed_kmh(pixel_velocity, fps)
PitchCalibrator_speed_kmh(calibrator, pixel_velocity, fps_) ==
    LET pixels_per_second == pixel_velocity * fps_
        meters_per_second == PitchCalibrator_pixels_to_meters(calibrator, pixels_per_second)
    IN  IF IsRaised(meters_per_second)
        THEN meters_per_second
        ELSE Some(TruncDiv(meters_per_second.some * 36, 10))

\* the pixel distances and the per-frame pixel velocities converted, in
\* hundredths, and the frame rates
PixelDistances == {0, 50, 100, 250, 500, 1000, 2012, 5000, 10000, 20000}
PixelVelocities == {0, 100, 550, 1200, 2500}
FrameRates == {25, 30, 60, 120}

PixelsToMeters ==
    /\ \E c \in Calibrators, px \in PixelDistances :
         /\ args' = [calibrator |-> c, pixel_distance |-> px]
         /\ returned' = PitchCalibrator_pixels_to_meters(c, px)
    /\ last_op' = "calibrator.pixels_to_meters"
    /\ UNCHANGED <<segmenter, tracker, heap, processor, app, calls, detection, held>>

SpeedKmh ==
    /\ \E c \in Calibrators, v \in PixelVelocities, f \in FrameRates :
         /\ args' = [calibrator |-> c, pixel_velocity |-> v, fps |-> f]
         /\ returned' = PitchCalibrator_speed_kmh(c, v, f)
    /\ last_op' = "calibrator.speed_kmh"
    /\ UNCHANGED <<segmenter, tracker, heap, processor, app, calls, detection, held>>

CalibratorNext == PixelsToMeters \/ SpeedKmh

CalibratorSpec == Init /\ [][CalibratorNext]_vars

\* C19 as stated: with pixels_per_meter <= 0, pixels_to_meters and
\* speed_kmh fail with ConfigurationError: they do not divide by the value
\* and return no result.
C19_AsStated ==
    ( /\ last_op \in {"calibrator.pixels_to_meters", "calibrator.speed_kmh"}
      /\ args.calibrator.pitch_config.pixels_per_meter <= 0 )
    => returned = Raise("ConfigurationError")

----------------------------------------------------------------------------
(* WideEngine.  Confidences are in hundredths. *)

\* WideConfig(off_side_distance_m, leg_side_distance_m), in hundredths of a
\* metre
WideConfig(off_side_distance_m, leg_side_distance_m) ==
    [ off_side_distance_m |-> off_side_distance_m,
      leg_side_distance_m |-> leg_side_distance_m ]

\* get_wide_lines(wide_config): (off_line, leg_line), or the AttributeError
\* of reading a distance of a wide_config that is None
PitchCalibrator_get_wide_lines(calibrator, wide_config) ==
    IF wide_config = None
    THEN Raise("AttributeError")
    ELSE LET off_stump_x == calibrator.stump_position.off_stump_px[1]
             leg_stump_x == calibrator.stump_position.leg_stump_px[1]
             off_side_px == PitchCalibrator_meters_to_pixels(calibrator, wide_config.off_side_distance_m)
             leg_side_px == PitchCalibrator_meters_to_pixels(calibrator, wide_config.leg_side_distance_m)
             off_line_x == off_stump_x - PyInt(off_side_px)
             leg_line_x == leg_stump_x + PyInt(leg_side_px)
             batting_crease_y == calibrator.pitch_config.batting_crease_px[2]
         IN  Some(<< << <<off_line_x, batting_crease_y>>, <<off_line_x, batting_crease_y + 100>> >>,
                     << <<leg_line_x, batting_crease_y>>, <<leg_line_x, batting_crease_y + 100>> >> >>)

\* WideDecision(...): the dataclass and its __post_init__
WideDecision(delivery_id, ball_position_at_crease_px, off_line_distance_px, leg_line_distance_px, result, side, confidence) ==
    IF confidence < 0 \/ confidence > 100 \/ result \notin {"WIDE", "NOT_WIDE"}
    THEN Raise("ValueError")
    ELSE [ delivery_id                |-> delivery_id,
           ball_position_at_crease_px |-> ball_position_at_crease_px,
           off_line_distance_px       |-> off_line_distance_px,
           leg_line_distance_px       |-> leg_line_distance_px,
           result                     |-> result,
           side                       |-> side,
           confidence                 |-> confidence ]

\* WideEngine(calibrator, wide_config)
WideEngine(calibrator, wide_config) ==
    [ calibrator |-> calibrator, wide_config |-> wide_config ]

\* mutant of WideSide: a ball on a wide line is wide
WideSide_OnLineWide(ball_x, off_line_x, leg_line_x) ==
    IF ball_x <= off_line_x THEN Some("off")
    ELSE IF ball_x >= leg_line_x THEN Some("leg")
    ELSE None

\* the side the ball is wide on (wide_side when is_wide), None when it is
\* not wide
WideSide(ball_x, off_line_x, leg_line_x) ==
    IF ball_x < off_line_x THEN Some("off")
    ELSE IF ball_x > leg_line_x THEN Some("leg")
    ELSE None

\* mutant of WideFailure: the failure of the wide lines propagates
WideFailure_Propagates(trajectory, ball_position, exception) == exception

\* the except branch of evaluate()
WideFailure(trajectory, ball_position, exception) ==
    WideDecision(trajectory.delivery_id, ball_position, 0, 0, "NOT_WIDE", None, 10)

\* evaluate(trajectory), h holding the lists of the trajectory
WideEngine_evaluate(engine, trajectory, h) ==
    LET detections == h[trajectory.detections] IN
    IF detections = <<>>
    THEN WideDecision(trajectory.delivery_id, <<0, 0>>, 0, 0, "NOT_WIDE", None, 0)
    ELSE LET last_detection == Last(detections)
             ball_x == last_detection.x
             ball_position == <<PyInt(last_detection.x * 100), PyInt(last_detection.y * 100)>>
             wide_lines == PitchCalibrator_get_wide_lines(engine.calibrator, engine.wide_config)
         IN  IF IsRaised(wide_lines)
             THEN WideFailure(trajectory, ball_position, wide_lines)
             ELSE LET off_line_x == wide_lines.some[1][1][1]
                      leg_line_x == wide_lines.some[2][1][1]
                      wide_side == WideSide(ball_x, off_line_x, leg_line_x)
                      confidence == Max(30, Min(100, (Len(detections) * 100) \div 10))
                  IN  WideDecision(trajectory.delivery_id, ball_position,
                                   Abs(ball_x - off_line_x) * 100,
                                   Abs(ball_x - leg_line_x) * 100,
                                   IF wide_side # None THEN "WIDE" ELSE "NOT_WIDE",
                                   wide_side, confidence)

----------------------------------------------------------------------------
(* CaughtBehindEngine.  A reason is the sequence of its phrases. *)

\* the fields of the dataclass CaughtBehindDecision
CaughtBehindDecision_fields ==
    { "delivery_id", "edge_detected", "edge_point_px", "ground_bounce_before_wall",
      "wall_hit_in_boundary", "result", "reason", "confidence" }

\* CaughtBehindDecision(**kw): the generated __init__, which takes the
\* fields of the dataclass and no other keyword, then __post_init__
CaughtBehindDecision(kw) ==
    IF DOMAIN kw # CaughtBehindDecision_fields
    THEN Raise("TypeError")
    ELSE IF kw.confidence < 0 \/ kw.confidence > 100 \/ kw.result \notin {"OUT", "NOT_OUT"}
    THEN Raise("ValueError")
    ELSE kw

\* CaughtBehindEngine(calibrator, edge_sensitivity=edge_sensitivity), the
\* sensitivity in hundredths
CaughtBehindEngine(calibrator, edge_sensitivity) ==
    [ calibrator |-> calibrator, edge_sensitivity |-> edge_sensitivity ]

\* mutant of CaughtBehindEngine_has_edge: an unknown impact is an edge
\* whatever its velocity change
CaughtBehindEngine_has_edge_AnyUnknown(impacts) ==
    \/ \E i \in DOMAIN impacts : impacts[i].impact_type = "bat"
    \/ \E i \in DOMAIN impacts : impacts[i].impact_type = "unknown"

\* _has_edge(trajectory), impacts being trajectory.impact_points
CaughtBehindEngine_has_edge(impacts) ==
    \/ \E i \in DOMAIN impacts : impacts[i].impact_type = "bat"
    \/ \E i \in DOMAIN impacts :
         impacts[i].impact_type = "unknown" /\ impacts[i].velocity_change > 4000

\* mutant of CaughtBehindEngine_EdgeCrossed: the lower end of an edge counts
CaughtBehindEngine_EdgeCrossed_Closed(x, y, p1x, p1y, p2x, p2y) ==
    /\ y >= Min(p1y, p2y)
    /\ y <= Max(p1y, p2y)
    /\ x <= Max(p1x, p2x)
    /\ \/ p1x = p2x
       \/ /\ p1y # p2y
          /\ IF p2y - p1y > 0
             THEN (x - p1x) * (p2y - p1y) <= (y - p1y) * (p2x - p1x)
             ELSE (x - p1x) * (p2y - p1y) >= (y - p1y) * (p2x - p1x)

\* the body of the loop of _is_in_wall_boundary: whether `inside` flips on
\* the edge (p1x, p1y)-(p2x, p2y).  xinters is computed only when
\* p1y != p2y, and is read only on an edge y lies across, which is never
\* horizontal; x <= xinters is compared after multiplying by p2y - p1y
CaughtBehindEngine_EdgeCrossed(x, y, p1x, p1y, p2x, p2y) ==
    /\ y > Min(p1y, p2y)
    /\ y <= Max(p1y, p2y)
    /\ x <= Max(p1x, p2x)
    /\ \/ p1x = p2x
       \/ /\ p1y # p2y
          /\ IF p2y - p1y > 0
             THEN (x - p1x) * (p2y - p1y) <= (y - p1y) * (p2x - p1x)
             ELSE (x - p1x) * (p2y - p1y) >= (y - p1y) * (p2x - p1x)

\* the loop of _is_in_wall_boundary from iteration i on (i in 1..n, as
\* range(1, n + 1)), p1 being the vertex the previous iteration left
RECURSIVE CaughtBehindEngine_RayCast(_, _, _, _, _, _)
CaughtBehindEngine_RayCast(x, y, polygon, i, p1, inside) ==
    LET n == Len(polygon) IN
    IF i > n THEN inside
    ELSE LET p2 == polygon[(i % n) + 1]
         IN  CaughtBehindEngine_RayCast(x, y, polygon, i + 1, p2,
                 IF CaughtBehindEngine_EdgeCrossed(x, y, p1[1], p1[2], p2[1], p2[2])
                 THEN ~inside ELSE inside)

\* _is_in_wall_boundary(detection, wall_boundary)
CaughtBehindEngine_is_in_wall_boundary(d, wall_boundary) ==
    IF wall_boundary = None \/ Len(wall_boundary.polygon_points) < 3
    THEN FALSE
    ELSE CaughtBehindEngine_RayCast(PyInt(d.x * 100), PyInt(d.y * 100),
                                    wall_boundary.polygon_points, 1,
                                    wall_boundary.polygon_points[1], FALSE)

\* _hits_wall(trajectory, config)
CaughtBehindEngine_hits_wall(detections, impacts, config) ==
    IF config.wall_boundary = None \/ impacts = <<>>
    THEN FALSE
    ELSE \/ \E i \in DOMAIN impacts : impacts[i].impact_type = "wall"
         \/ \E i \in DOMAIN detections :
              CaughtBehindEngine_is_in_wall_boundary(detections[i], config.wall_boundary)

\* the frame the loop of _no_bounce_between_edge_and_wall leaves in
\* edge_frame / wall_frame: that of the last impact of the type, or None
FrameOfLast(impacts, impact_type) ==
    LET of_type == { i \in DOMAIN impacts : impacts[i].impact_type = impact_type } IN
    IF of_type = {} THEN None
    ELSE Some(impacts[CHOOSE i \in of_type : \A j \in of_type : j <= i].frame_number)

\* _no_bounce_between_edge_and_wall(trajectory); a bounce frame 0 is falsy
\* and becomes float('inf')
CaughtBehindEngine_no_bounce_between_edge_and_wall(trajectory, impacts) ==
    IF impacts = <<>> \/ trajectory.bounce_point = None
    THEN TRUE
    ELSE LET edge_frame == FrameOfLast(impacts, "bat")
             wall_frame == FrameOfLast(impacts, "wall")
             bounce_frame == trajectory.bounce_point.frame_number
         IN  IF edge_frame = None \/ wall_frame = None THEN TRUE
             ELSE IF bounce_frame = 0 THEN TRUE
             ELSE IF edge_frame.some <= wall_frame.some
             THEN ~(edge_frame.some < bounce_frame /\ bounce_frame < wall_frame.some)
             ELSE ~(wall_frame.some < bounce_frame /\ bounce_frame < edge_frame.some)

\* _calculate_confidence(has_edge, hits_wall, no_bounce_between, trajectory)
CaughtBehindEngine_calculate_confidence(has_edge, hits_wall, no_bounce_between, trajectory) ==
    LET base == (IF has_edge THEN 30 ELSE 0) + (IF hits_wall THEN 30 ELSE 0)
                + (IF no_bounce_between THEN 30 ELSE 0)
        \* `trajectory.deviation_px and trajectory.deviation_px < 50`: 0.0 is
        \* falsy, nan is truthy and below nothing
        bonus == IF /\ trajectory.deviation_px # 0
                    /\ trajectory.deviation_px # NaN
                    /\ trajectory.deviation_px < 5000
                 THEN 10 ELSE 0
    IN  Min(100, base + bonus)

\* the keyword arguments evaluate() gives CaughtBehindDecision
CaughtBehindEngine_kwargs(trajectory, h, config) ==
    LET detections == h[trajectory.detections]
        impacts == h[trajectory.impact_points]
        has_edge == CaughtBehindEngine_has_edge(impacts)
        hits_wall == CaughtBehindEngine_hits_wall(detections, impacts, config)
        no_bounce_between ==
            CaughtBehindEngine_no_bounce_between_edge_and_wall(trajectory, impacts)
        is_out == has_edge /\ hits_wall /\ no_bounce_between
        reasons == (IF ~has_edge THEN <<"Ball did not hit bat">> ELSE <<>>)
                   \o (IF ~hits_wall THEN <<"Ball did not hit wall">> ELSE <<>>)
                   \o (IF ~no_bounce_between
                       THEN <<"Ball bounced between bat and wall">> ELSE <<>>)
    IN  [ result            |-> IF is_out THEN "OUT" ELSE "NOT OUT",
          reason            |-> IF is_out
                                THEN <<"Ball hit bat and hit wall directly without bouncing">>
                                ELSE <<"Caught behind not satisfied">> \o reasons,
          confidence        |-> CaughtBehindEngine_calculate_confidence(
                                    has_edge, hits_wall, no_bounce_between, trajectory),
          has_edge          |-> has_edge,
          hits_wall         |-> hits_wall,
          no_bounce_between |-> no_bounce_between ]

\* evaluate(trajectory, config)
CaughtBehindEngine_evaluate(trajectory, h, config) ==
    CaughtBehindDecision(CaughtBehindEngine_kwargs(trajectory, h, config))

----------------------------------------------------------------------------
(* LBWEngine *)

\* LBWDecision(...): the dataclass and its __post_init__
LBWDecision(delivery_id, pitching_zone, impact_zone, projected_hitting_stumps, projected_path, stump_zone_hit, handedness, result, reason, confidence) ==
    IF confidence < 0 \/ confidence > 100 \/ result \notin {"OUT", "NOT_OUT"}
    THEN Raise("ValueError")
    ELSE [ delivery_id              |-> delivery_id,
           pitching_zone            |-> pitching_zone,
           impact_zone              |-> impact_zone,
           projected_hitting_stumps |-> projected_hitting_stumps,
           projected_path           |-> projected_path,
           stump_zone_hit           |-> stump_zone_hit,
           handedness               |-> handedness,
           result                   |-> result,
           reason                   |-> reason,
           confidence               |-> confidence ]

\* LBWEngine(calibrator, stump_tolerance), the tolerance in hundredths; the
\* thresholds the strictness sets are read by no method
LBWEngine(calibrator, stump_tolerance) ==
    [ calibrator |-> calibrator, stump_tolerance |-> stump_tolerance ]

\* _analyze_pitching_zone(trajectory, handedness)
LBWEngine_analyze_pitching_zone(engine, trajectory, detections, handedness) ==
    LET pos == IF trajectory.bounce_point # None
               THEN trajectory.bounce_point
               ELSE detections[(Len(detections) \div 2) + 1]
        stumps == engine.calibrator.stump_position
        in_stump_zone ==
            PitchCalibrator_is_in_stump_zone(
                stumps, <<PyInt(pos.x * 100), PyInt(pos.y * 100)>>, engine.stump_tolerance)
        off_stump_x == stumps.off_stump_px[1]
        leg_stump_x == stumps.leg_stump_px[1]
    IN  IF in_stump_zone
        THEN IF \/ handedness = "right" /\ pos.x < off_stump_x
                \/ handedness = "left" /\ pos.x > leg_stump_x
             THEN [zone |-> "outside_off", confidence |-> 30]
             ELSE [zone |-> "in_line", confidence |-> 90]
        ELSE IF \/ handedness = "right" /\ pos.x > leg_stump_x
                \/ handedness = "left" /\ pos.x < off_stump_x
             THEN [zone |-> "outside_leg", confidence |-> 10]
             ELSE [zone |-> "outside_off", confidence |-> 30]

\* _analyze_impact_zone(pad_impact, handedness)
LBWEngine_analyze_impact_zone(engine, pad_impact, handedness) ==
    LET pos == pad_impact.position_px
        stumps == engine.calibrator.stump_position
    IN  IF PitchCalibrator_is_in_stump_zone(stumps, pos, engine.stump_tolerance)
        THEN [zone |-> "in_line", confidence |-> Min(100, pad_impact.confidence)]
        ELSE IF \/ handedness = "right" /\ pos[1] < stumps.off_stump_px[1]
                \/ handedness = "left" /\ pos[1] > stumps.leg_stump_px[1]
             THEN [zone |-> "outside_off", confidence |-> Min(30, pad_impact.confidence)]
             ELSE [zone |-> "outside_off", confidence |-> 10]

\* _project_trajectory_to_stumps(trajectory, pad_impact, handedness), for a
\* trajectory of two detections or more; lengths in hundredths of a pixel
LBWEngine_project_trajectory_to_stumps(engine, detections, pad_impact) ==
    LET impact_x == pad_impact.position_px[1]
        impact_y == pad_impact.position_px[2]
        impact_frame == pad_impact.frame_number
        at_frame == { i \in DOMAIN detections : detections[i].frame_number = impact_frame }
        impact_detection ==
            IF at_frame = {} THEN Last(detections)
            ELSE detections[CHOOSE i \in at_frame : \A j \in at_frame : i <= j]
        before == { i \in DOMAIN detections : detections[i].frame_number < impact_frame }
        prev_detection ==
            IF before = {} THEN detections[Len(detections) - 1]
            ELSE detections[CHOOSE i \in before : \A j \in before : j <= i]
        dx == impact_detection.x - prev_detection.x
        stumps == engine.calibrator.stump_position
        off_stump_x == stumps.off_stump_px[1]
        leg_stump_x == stumps.leg_stump_px[1]
        crease_x == engine.calibrator.pitch_config.batting_crease_px[1]
        batting_crease_x == IF crease_x = 0
                            THEN ((off_stump_x + leg_stump_x) * 100) \div 2
                            ELSE crease_x * 100
        dist_to_project == batting_crease_x - impact_x * 100
        \* dy * projection_factor
        travel == IF dx # 0
                  THEN TruncDiv((impact_detection.y - prev_detection.y) * dist_to_project, dx)
                  ELSE -10 * 100
        projected_x == batting_crease_x
        projected_y == impact_y * 100 + travel
        stumps_y == ((stumps.off_stump_px[2] + stumps.leg_stump_px[2]
                      + stumps.middle_stump_px[2]) * 100) \div 3
        effective_width == Abs(leg_stump_x - off_stump_x) * engine.stump_tolerance
        stumps_center_x == ((off_stump_x + leg_stump_x) * 100) \div 2
        projected_hits_stumps ==
            /\ Abs(projected_x - stumps_center_x) * 2 <= effective_width
            /\ Abs(projected_y - stumps_y) * 2 <= stumps.stump_height_px * 100
        confidence == IF projected_hits_stumps THEN 80 ELSE 50
    IN  [ projected_path |-> << <<impact_x, impact_y>>,
                                <<PyInt(projected_x), PyInt(projected_y)>> >>,
          projected_hits_stumps |-> projected_hits_stumps,
          confidence |-> IF Len(detections) < 5 THEN (confidence * 6) \div 10
                         ELSE confidence ]

\* mutant of LBWEngine_make_lbw_decision: the projection is tested before
\* the impact zone
LBWEngine_make_lbw_decision_ProjectionFirst(pitching_zone, impact_zone, projected_hitting_stumps) ==
    IF pitching_zone = "outside_leg"
    THEN [result |-> "NOT_OUT", reason |-> "Ball pitched outside leg stump", confidence |-> 90]
    ELSE IF ~projected_hitting_stumps
    THEN [result |-> "NOT_OUT", reason |-> "Ball would not have hit stumps", confidence |-> 70]
    ELSE IF impact_zone = "outside_off"
    THEN [result |-> "NOT_OUT", reason |-> "Ball hit pad outside off stump", confidence |-> 80]
    ELSE [result |-> "OUT",
          reason |-> "Ball pitched in line, hit pad in line, and would have hit stumps",
          confidence |-> 90]

\* _make_lbw_decision(pitching_zone, impact_zone, projected_hitting_stumps,
\* ...): the three confidences it is also given are read nowhere in it
LBWEngine_make_lbw_decision(pitching_zone, impact_zone, projected_hitting_stumps) ==
    IF pitching_zone = "outside_leg"
    THEN [result |-> "NOT_OUT", reason |-> "Ball pitched outside leg stump", confidence |-> 90]
    ELSE IF impact_zone = "outside_off"
    THEN [result |-> "NOT_OUT", reason |-> "Ball hit pad outside off stump", confidence |-> 80]
    ELSE IF ~projected_hitting_stumps
    THEN [result |-> "NOT_OUT", reason |-> "Ball would not have hit stumps", confidence |-> 70]
    ELSE [result |-> "OUT",
          reason |-> "Ball pitched in line, hit pad in line, and would have hit stumps",
          confidence |-> 90]

\* squared distance of point p from point q
PointDist2(p, q) == (p[1] - q[1]) * (p[1] - q[1]) + (p[2] - q[2]) * (p[2] - q[2])

\* _determine_stump_hit(impact_position, handedness): the nearest stump
LBWEngine_determine_stump_hit(engine, impact_position) ==
    LET stumps == engine.calibrator.stump_position
        d_off == PointDist2(impact_position, stumps.off_stump_px)
        d_middle == PointDist2(impact_position, stumps.middle_stump_px)
        d_leg == PointDist2(impact_position, stumps.leg_stump_px)
        min_dist == Min(d_off, Min(d_middle, d_leg))
    IN  IF min_dist = d_off THEN "off"
        ELSE IF min_dist = d_middle THEN "middle"
        ELSE "leg"

\* mutant of TooShort: two detections are enough
TooShort_BelowTwo(detections) == Len(detections) < 2

\* the test of evaluate() for a trajectory too short to project
TooShort(detections) == Len(detections) < 3

\* evaluate(trajectory, pad_impact, handedness), h holding the lists of the
\* trajectory
LBWEngine_evaluate(engine, trajectory, h, pad_impact, handedness) ==
    LET detections == h[trajectory.detections] IN
    IF TooShort(detections)
    THEN Raise("InsufficientDataError")
    ELSE LET pitching == LBWEngine_analyze_pitching_zone(engine, trajectory,
                                                         detections, handedness)
             impact == LBWEngine_analyze_impact_zone(engine, pad_impact, handedness)
             projection == LBWEngine_project_trajectory_to_stumps(engine, detections,
                                                                  pad_impact)
             decision == LBWEngine_make_lbw_decision(pitching.zone, impact.zone,
                                                     projection.projected_hits_stumps)
             stump_zone_hit ==
                 IF projection.projected_hits_stumps
                 THEN Some(LBWEngine_determine_stump_hit(engine, pad_impact.position_px))
                 ELSE None
         IN  LBWDecision(trajectory.delivery_id, pitching.zone, impact.zone,
                         projection.projected_hits_stumps, projection.projected_path,
                         stump_zone_hit, handedness, decision.result, decision.reason,
                         decision.confidence)

----------------------------------------------------------------------------
(* The decision engines applied to a finalized Trajectory.  The engines    *)
(* keep no state of a delivery: an evaluation reads the Trajectory and the *)
(* calibration and returns a decision or raises.                           *)

\* detections of a Trajectory given to an engine are 0..MaxDetections
MaxDetections == 4
\* impact events of a Trajectory given to an engine are 0..MaxImpacts
MaxImpacts == 2

\* where the ball is seen: wide of the off-side line, on it, in line with
\* middle stump, on the leg-side line, wide of it and inside the wall
\* boundary
EnginePositions == { <<60, 200>>, <<70, 200>>, <<150, 200>>, <<230, 200>>, <<240, 150>> }

\* a delivery of n detections in frames 0..n-1 that comes down the line of
\* middle stump and ends at position last
DetectionPath(n, last) ==
    [ i \in 1..n |-> IF i < n THEN BallDetection(i - 1, i - 1, 150, 200)
                     ELSE BallDetection(i - 1, i - 1, last[1], last[2]) ]

\* the deliveries evaluated: none to MaxDetections detections, and a long
\* delivery (more than the ten detections that give full wide confidence)
DetectionLists ==
    { <<>> }
    \cup { DetectionPath(n, last) : n \in 1..MaxDetections, last \in EnginePositions }
    \cup { DetectionPath(3 * MaxDetections, last) : last \in { <<60, 200>>, <<150, 200>> } }

\* impact events as BallTracker.detect_impact constructs them, and a bat
\* impact as the unit tests construct it: bat at frame 10, wall at frame
\* 20, two unknown impacts either side of the edge cutoff
ImpactChoices ==
    { ImpactEvent(BallDetection(10, 10, 150, 200), "bat", 6000, FALSE),
      ImpactEvent(BallDetection(20, 20, 240, 150), "wall", 12000, TRUE),
      ImpactEvent(BallDetection(12, 12, 150, 200), "unknown", 4500, FALSE),
      ImpactEvent(BallDetection(12, 12, 150, 200), "unknown", 3500, FALSE) }

ImpactLists ==
    UNION { [1..n -> ImpactChoices] : n \in 0..MaxImpacts }

\* the bounce point: none, between the bat and the wall impact, after both,
\* and one outside leg stump
BouncePoints ==
    { None, BallDetection(15, 15, 150, 200), BallDetection(25, 25, 150, 200),
      BallDetection(15, 15, 240, 150) }

\* deviation_px of the Trajectory, in hundredths: a straight path and a
\* deviation below the 50 px of the confidence bonus
Deviations == {0, 1000}

\* Trajectory(delivery_id, detections, bounce_point=, impact_points=,
\* deviation_px=) whose lists are heap[det_ref] and heap[imp_ref]
FinalTrajectory(det_ref, imp_ref, bounce_point, deviation_px) ==
    [ delivery_id   |-> "test_delivery",
      detections    |-> det_ref,
      speed_kmh     |-> None,
      bounce_point  |-> bounce_point,
      impact_points |-> imp_ref,
      deviation_px  |-> deviation_px,
      is_complete   |-> FALSE,
      kalman_state  |-> None ]

EngineInit ==
    /\ segmenter = DeliverySegmenter_init(DefaultMinFrames, PageIdleFrames)
    /\ tracker = BallTracker_init(fps, 1, 2)
    /\ \E detections \in DetectionLists, impacts \in ImpactLists :
         heap = << <<>>, <<>>, detections, impacts >>
    /\ \E bounce_point \in BouncePoints, deviation_px \in Deviations :
         held = FinalTrajectory(3, 4, bounce_point, deviation_px)
    /\ processor = BallTrackingProcessor_init
    /\ app = LiveTrackingApp_init
    /\ calls = 0
    /\ last_op = "init"
    /\ detection = None
    /\ returned = None
    /\ args = None

\* the calibrations a WideEngine is built with: uncalibrated scale (the
\* wide lines fall on the stumps) and 37 px/m (the wide lines are at x = 70
\* and x = 230); the configured wide distances of 0.83 m, or none
WideEngines ==
    { WideEngine(PitchCalibrator(PitchConfig(ppm), StumpPosition), wide_config) :
        ppm \in {0, 37}, wide_config \in {None, WideConfig(83, 83)} }

\* the wall boundary of the SessionConfig: none, or a rectangle behind the
\* wicket
WallBoundaries ==
    { None,
      [polygon_points |-> << <<220, 100>>, <<260, 100>>, <<260, 180>>, <<220, 180>> >>] }

\* SessionConfig(..., wall_boundary=wall_boundary, ...)
SessionConfig(wall_boundary) ==
    [ pitch_config   |-> PitchConfig(37),
      batting_stumps |-> StumpPosition,
      wide_config    |-> WideConfig(83, 83),
      wall_boundary  |-> wall_boundary ]

\* the engine evaluate_lbw() builds: stump_tolerance 1.0
TheLBWEngine == LBWEngine(PitchCalibrator(PitchConfig(37), StumpPosition), 100)

\* the pad impact of an appeal: in line and at stump height, in line and
\* above the stumps, outside off stump at either height
PadImpacts ==
    { ImpactEvent(BallDetection(3, 3, p[1], p[2]), "pad", 5000, FALSE) :
        p \in { <<150, 200>>, <<150, 100>>, <<60, 200>>, <<60, 100>> } }

Handedness == {"right", "left"}

\* WideEngine.evaluate(trajectory) on the Trajectory held
WideEvaluate ==
    /\ \E engine \in WideEngines :
         /\ args' = [engine |-> engine]
         /\ returned' = WideEngine_evaluate(engine, held, heap)
    /\ last_op' = "wide.evaluate"
    /\ UNCHANGED <<segmenter, tracker, heap, processor, app, calls, detection, held>>

\* CaughtBehindEngine.evaluate(trajectory, config) on the Trajectory held
CaughtBehindEvaluate ==
    /\ \E wall_boundary \in WallBoundaries :
         LET config == SessionConfig(wall_boundary) IN
         /\ args' = [config |-> config]
         /\ returned' = CaughtBehindEngine_evaluate(held, heap, config)
    /\ last_op' = "caught_behind.evaluate"
    /\ UNCHANGED <<segmenter, tracker, heap, processor, app, calls, detection, held>>

\* LBWEngine.evaluate(trajectory, pad_impact, handedness) on the Trajectory
\* held
LbwEvaluate ==
    /\ \E pad_impact \in PadImpacts, handedness \in Handedness :
         /\ args' = [engine |-> TheLBWEngine, pad_impact |-> pad_impact,
                     handedness |-> handedness]
         /\ returned' = LBWEngine_evaluate(TheLBWEngine, held, heap, pad_impact, handedness)
    /\ last_op' = "lbw.evaluate"
    /\ UNCHANGED <<segmenter, tracker, heap, processor, app, calls, detection, held>>

EngineNext == WideEvaluate \/ CaughtBehindEvaluate \/ LbwEvaluate

EngineSpec == EngineInit /\ [][EngineNext]_vars

----------------------------------------------------------------------------
(* Claims about CaughtBehindEngine, under EngineSpec *)

\* the three checks of the evaluation made last
CbChecks == CaughtBehindEngine_kwargs(held, heap, args.config)

\* the Trajectory held has a bat impact at frame 10 and a wall impact at
\* frame 20, in that order, and a bounce at frame f
BatWallBounce(f) ==
    /\ Len(heap[held.impact_points]) = 2
    /\ heap[held.impact_points][1].impact_type = "bat"
    /\ heap[held.impact_points][1].frame_number = 10
    /\ heap[held.impact_points][2].impact_type = "wall"
    /\ heap[held.impact_points][2].frame_number = 20
    /\ held.bounce_point # None
    /\ held.bounce_point.frame_number = f
    /\ args.config.wall_boundary # None

\* C13 as stated: evaluate returns a decision whose result is OUT if and
\* only if has_edge, hits_wall and no_bounce_between are all true, and
\* NOT_OUT otherwise; with a bat impact at frame 10 and a wall impact at
\* frame 20, a bounce at frame 15 gives NOT_OUT with a reason containing
\* "bounced between", and a bounce at frame 25 gives OUT.
C13_AsStated ==
    last_op = "caught_behind.evaluate" =>
        /\ ~IsRaised(returned)
        /\ returned.result =
             IF CbChecks.has_edge /\ CbChecks.hits_wall /\ CbChecks.no_bounce_between
             THEN "OUT" ELSE "NOT_OUT"
        /\ BatWallBounce(15) =>
             /\ returned.result = "NOT_OUT"
             /\ \E i \in DOMAIN returned.reason :
                  returned.reason[i] = "Ball bounced between bat and wall"
        /\ BatWallBounce(25) => returned.result = "OUT"

\* C14 as stated: evaluate is total: for every Trajectory and SessionConfig
\* it returns a CaughtBehindDecision record, with result OUT or NOT_OUT and
\* confidence in [0,1], and propagates no exception.
C14_AsStated ==
    last_op = "caught_behind.evaluate" =>
        /\ DOMAIN returned = CaughtBehindDecision_fields
        /\ returned.result \in {"OUT", "NOT_OUT"}
        /\ returned.confidence \in 0..100

----------------------------------------------------------------------------
(* Claims about WideEngine, under EngineSpec *)

\* the wide lines of the engine evaluated last
WideLines ==
    PitchCalibrator_get_wide_lines(args.engine.calibrator, args.engine.wide_config)

\* C15: on a non-empty trajectory, when the wide lines are computed,
\* evaluate classifies by the x of the last detection: left of the off-side
\* line is WIDE/off, right of the leg-side line is WIDE/leg, anything else,
\* a ball on either line included, is NOT_WIDE with side None; side is not
\* None exactly when the result is WIDE; the position reported is that of
\* the last detection.
C15_WideClassification ==
    ( /\ last_op = "wide.evaluate"
      /\ heap[held.detections] # <<>>
      /\ ~IsRaised(WideLines) ) =>
        LET last == Last(heap[held.detections])
            off_line_x == WideLines.some[1][1][1]
            leg_line_x == WideLines.some[2][1][1]
        IN  /\ ~IsRaised(returned)
            /\ last.x < off_line_x =>
                 returned.result = "WIDE" /\ returned.side = Some("off")
            /\ last.x > leg_line_x =>
                 returned.result = "WIDE" /\ returned.side = Some("leg")
            /\ (off_line_x <= last.x /\ last.x <= leg_line_x) =>
                 returned.result = "NOT_WIDE" /\ returned.side = None
            /\ (returned.side # None) <=> (returned.result = "WIDE")
            /\ returned.ball_position_at_crease_px = <<last.x, last.y>>

\* a delivery of several detections that ends exactly on the off-side wide
\* line and is not wide
C15_Witness ==
    /\ last_op = "wide.evaluate"
    /\ Len(heap[held.detections]) > 1
    /\ ~IsRaised(WideLines)
    /\ Last(heap[held.detections]).x = WideLines.some[1][1][1]
    /\ Last(heap[held.detections]).x < args.engine.calibrator.stump_position.off_stump_px[1]
    /\ returned.result = "NOT_WIDE"

\* C16: evaluate never raises; an empty trajectory gives NOT_WIDE with
\* confidence 0.0 and position (0,0); a failure while the wide lines are
\* computed gives NOT_WIDE with side None and confidence 0.1.
C16_WideNeverRaises ==
    last_op = "wide.evaluate" =>
        /\ ~IsRaised(returned)
        /\ heap[held.detections] = <<>> =>
             /\ returned.result = "NOT_WIDE"
             /\ returned.confidence = 0
             /\ returned.ball_position_at_crease_px = <<0, 0>>
        /\ (heap[held.detections] # <<>> /\ IsRaised(WideLines)) =>
             /\ returned.result = "NOT_WIDE"
             /\ returned.side = None
             /\ returned.confidence = 10

\* an engine without a wide configuration evaluated a non-empty trajectory
C16_Witness ==
    /\ last_op = "wide.evaluate"
    /\ heap[held.detections] # <<>>
    /\ IsRaised(WideLines)
    /\ returned.confidence = 10

----------------------------------------------------------------------------
(* Claims about LBWEngine, under EngineSpec *)

\* C17: LBWEngine.evaluate raises InsufficientDataError, and produces no
\* decision, exactly when the trajectory has fewer than 3 detections
\* (0, 1 or 2); with 3 or more it returns a decision.
C17_InsufficientData ==
    last_op = "lbw.evaluate" =>
        /\ (returned = Raise("InsufficientDataError"))
             <=> (Len(heap[held.detections]) < 3)
        /\ IsRaised(returned) <=> (Len(heap[held.detections]) < 3)

\* a trajectory of exactly two detections was refused
C17_Witness ==
    /\ last_op = "lbw.evaluate"
    /\ Len(heap[held.detections]) = 2
    /\ returned = Raise("InsufficientDataError")

\* C18: the verdict of a returned LBW decision follows a fixed precedence
\* over the zones the decision records: pitched outside leg is NOT_OUT with
\* confidence 0.9 whatever the rest; otherwise impact outside off is NOT_OUT
\* with 0.8; otherwise a projection missing the stumps is NOT_OUT with 0.7;
\* otherwise OUT with 0.9.  OUT therefore needs a pitch that is not outside
\* leg, an impact in line and a projection hitting the stumps.
C18_VerdictPrecedence ==
    (last_op = "lbw.evaluate" /\ ~IsRaised(returned)) =>
        LET leg  == returned.pitching_zone = "outside_leg"
            off  == returned.impact_zone = "outside_off"
            hits == returned.projected_hitting_stumps
        IN  /\ leg =>
                 returned.result = "NOT_OUT" /\ returned.confidence = 90
            /\ (~leg /\ off) =>
                 returned.result = "NOT_OUT" /\ returned.confidence = 80
            /\ (~leg /\ ~off /\ ~hits) =>
                 returned.result = "NOT_OUT" /\ returned.confidence = 70
            /\ (~leg /\ ~off /\ hits) =>
                 returned.result = "OUT" /\ returned.confidence = 90
            /\ returned.result = "OUT" =>
                 /\ returned.pitching_zone # "outside_leg"
                 /\ returned.impact_zone = "in_line"
                 /\ hits

\* a ball that pitched outside leg, struck the pad in line and was projected
\* onto the stumps was given not out
C18_Witness ==
    /\ last_op = "lbw.evaluate"
    /\ ~IsRaised(returned)
    /\ returned.pitching_zone = "outside_leg"
    /\ returned.impact_zone = "in_line"
    /\ returned.projected_hitting_stumps
    /\ returned.result = "NOT_OUT"

----------------------------------------------------------------------------
(* Confidences *)

\* the ImpactEvents held in the lists of the heap
ImpactEventsHeld ==
    UNION { { heap[r][i] : i \in { j \in DOMAIN heap[r] :
                                     "impact_type" \in DOMAIN heap[r][j] } }
            : r \in DOMAIN heap }

\* C20: every ImpactEvent the tracker constructed has a confidence in
\* [0, 1], and so has every decision WideEngine and LBWEngine return and
\* the confidence CaughtBehindEngine computes for its decision (and any
\* decision it returns), whatever the trajectory.
C20_ConfidenceInRange ==
    /\ \A impact \in ImpactEventsHeld : impact.confidence \in 0..100
    /\ (last_op \in {"wide.evaluate", "lbw.evaluate", "caught_behind.evaluate"}
          /\ ~IsRaised(returned)) => returned.confidence \in 0..100
    /\ last_op = "caught_behind.evaluate" => CbChecks.confidence \in 0..100

\* a trajectory holding an impact whose velocity change is beyond 100 px per
\* frame, capped at confidence 1.0, was given a decision with the three
\* caught-behind checks and the low-deviation bonus adding up to 1.0
C20_Witness ==
    /\ last_op = "caught_behind.evaluate"
    /\ \E impact \in ImpactEventsHeld :
         impact.velocity_change > 10000 /\ impact.confidence = 100
    /\ CbChecks.has_edge /\ CbChecks.hits_wall /\ CbChecks.no_bounce_between
    /\ held.deviation_px = 1000
    /\ CbChecks.confidence = 100

----------------------------------------------------------------------------
(* The geometry tests: the stump zone of the calibrator and the two copies *)
(* of the point-in-polygon test, applied to drawn inputs                   *)

\* the stump calibrations checked: the one of the unit tests, the two the
\* StumpDetector returns (no model loaded; a 640 x 480 frame), and stumps
\* seen from behind the bowler's arm, leg stump on the left
StumpCalibrations ==
    { StumpPosition,
      [ off_stump_px |-> <<0, 0>>, middle_stump_px |-> <<0, 0>>, leg_stump_px |-> <<0, 0>>,
        stump_width_px |-> 100, stump_height_px |-> 70 ],
      [ off_stump_px |-> <<290, 410>>, middle_stump_px |-> <<320, 410>>,
        leg_stump_px |-> <<350, 410>>, stump_width_px |-> 60, stump_height_px |-> 70 ],
      [ off_stump_px |-> <<200, 200>>, middle_stump_px |-> <<150, 200>>,
        leg_stump_px |-> <<100, 200>>, stump_width_px |-> 100, stump_height_px |-> 70 ] }

\* tolerances in hundredths: the range of the rules page's slider (0.1 to
\* 5.0), the default 1.0 and the 1.5 of detect_impact
Tolerances == {10, 50, 100, 110, 150, 200, 300, 500}

\* the x of the positions tested, around the boundaries of the zones
StumpZoneXs ==
    { -200, -51, -50, -1, 0, 1, 50, 75, 99, 100, 150, 200, 201, 225, 226, 250,
      289, 290, 350, 351, 400, 401 }

\* wall boundaries: none; a WallBoundary left with two points by the setup
\* page; the default of the ConfigManager; the rectangle of the unit tests;
\* two triangles with slanted edges; a concave polygon
Polygons ==
    { None,
      [polygon_points |-> << <<100, 100>>, <<200, 100>> >>],
      [polygon_points |-> << <<0, 0>>, <<0, 0>>, <<0, 0>> >>],
      [polygon_points |-> << <<100, 100>>, <<200, 100>>, <<200, 200>>, <<100, 200>> >>],
      [polygon_points |-> << <<100, 100>>, <<200, 200>>, <<100, 200>> >>],
      [polygon_points |-> << <<100, 200>>, <<150, 100>>, <<200, 200>> >>],
      [polygon_points |-> << <<100, 100>>, <<150, 150>>, <<200, 100>>, <<200, 200>>,
                             <<100, 200>> >>] }

\* the points tested: outside, inside, on edges and at vertices
PolygonPoints ==
    { <<x, y>> : x \in {0, 50, 100, 125, 150, 175, 200, 250},
                 y \in {0, 50, 100, 125, 150, 175, 200, 250} }

\* calibrator.is_in_stump_zone(position_px, tolerance=tolerance)
IsInStumpZone ==
    /\ \E stumps \in StumpCalibrations, x \in StumpZoneXs, tolerance \in Tolerances :
         LET calibrator == PitchCalibrator(PitchConfig(37), stumps) IN
         /\ args' = [calibrator |-> calibrator, position_px |-> <<x, 200>>,
                     tolerance |-> tolerance]
         /\ returned' = Some(PitchCalibrator_is_in_stump_zone(stumps, <<x, 200>>, tolerance))
    /\ last_op' = "calibrator.is_in_stump_zone"
    /\ UNCHANGED <<segmenter, tracker, heap, processor, app, calls, detection, held>>

\* tracker._is_in_boundary(detection, wall_boundary) and
\* engine._is_in_wall_boundary(detection, wall_boundary) on the same
\* arguments
IsInBoundary ==
    /\ \E wall_boundary \in Polygons, p \in PolygonPoints :
         LET d == BallDetection(0, 0, p[1], p[2]) IN
         /\ args' = [detection |-> d, wall_boundary |-> wall_boundary]
         /\ returned' = [ tracker |-> BallTracker_is_in_boundary(d, wall_boundary),
                          engine  |-> CaughtBehindEngine_is_in_wall_boundary(d, wall_boundary) ]
    /\ last_op' = "is_in_boundary"
    /\ UNCHANGED <<segmenter, tracker, heap, processor, app, calls, detection, held>>

GeometryNext == IsInStumpZone \/ IsInBoundary

GeometrySpec == Init /\ [][GeometryNext]_vars

\* C21: is_in_stump_zone is monotonic in the tolerance: a position in the
\* zone at one tolerance is in the zone at every larger tolerance, for every
\* position and stump calibration.
C21_StumpZoneMonotonic ==
    (last_op = "calibrator.is_in_stump_zone" /\ returned = Some(TRUE)) =>
        \A t2 \in Tolerances :
            t2 >= args.tolerance =>
                PitchCalibrator_is_in_stump_zone(args.calibrator.stump_position,
                                                 args.position_px, t2)

\* a position outside the stumps that a tolerance below the largest puts in
\* the zone
C21_Witness ==
    /\ last_op = "calibrator.is_in_stump_zone"
    /\ returned = Some(TRUE)
    /\ args.tolerance < 500
    /\ ~PitchCalibrator_is_in_stump_zone(args.calibrator.stump_position,
                                         args.position_px, 100)

\* C22: the point-in-polygon test of the tracker and that of the
\* caught-behind engine return the same result for every polygon and point,
\* points on an edge or at a vertex and polygons of fewer than 3 points
\* included.
C22_PointInPolygonAgree ==
    last_op = "is_in_boundary" => returned.tracker = returned.engine

\* a point on the slanted edge of a triangle, which both copies take to be
\* inside
C22_Witness ==
    /\ last_op = "is_in_boundary"
    /\ args.wall_boundary = [polygon_points |-> << <<100, 100>>, <<200, 200>>, <<100, 200>> >>]
    /\ args.detection.x = 150 /\ args.detection.y = 150
    /\ returned.tracker /\ returned.engine

----------------------------------------------------------------------------
(* The checks of CaughtBehindEngine, called one by one on a Trajectory as  *)
(* the unit tests call them                                                *)

\* the impact events of the trajectories checked, of every type: the bat
\* and wall impacts of the unit tests, unknown impacts either side of the
\* edge cutoff, and ground, pad and stumps impacts of 90 px per frame
CheckImpactTypes ==
    ImpactChoices
    \cup { ImpactEvent(BallDetection(12, 12, 150, 200), impact_type, 9000, FALSE) :
             impact_type \in {"ground", "pad", "stumps"} }

\* bat and wall impacts in different frames: an edge at frame 10, the wall
\* at frame 20, the bat again at frame 30
BatAndWallImpacts ==
    { ImpactEvent(BallDetection(10, 10, 150, 200), "bat", 6000, FALSE),
      ImpactEvent(BallDetection(20, 20, 240, 150), "wall", 12000, TRUE),
      ImpactEvent(BallDetection(30, 30, 150, 200), "bat", 6000, FALSE) }

\* impact_points of the trajectories checked: up to MaxImpacts impacts of
\* any type, and one impact more of bat and wall impacts
CheckImpactLists ==
    UNION { [1..n -> CheckImpactTypes] : n \in 0..MaxImpacts }
    \cup [1..(MaxImpacts + 1) -> BatAndWallImpacts]

\* detections: none, one in line with middle stump, one inside the wall
\* boundary
CheckDetectionLists ==
    { <<>>, DetectionPath(1, <<150, 200>>), DetectionPath(1, <<240, 150>>) }

\* the bounce point: none, at frame 15 and at frame 25
CheckBouncePoints ==
    { None, BallDetection(15, 15, 150, 200), BallDetection(25, 25, 150, 200) }

\* deviation_px in hundredths: a straight path (0.0, as get_trajectory
\* gives for collinear detections), 10 px, 60 px, and the nan of a
\* trajectory that ends where it began
CheckDeviations == {0, 1000, 6000, NaN}

\* edge_sensitivity of the engines, in hundredths: the ends of [0, 1] and
\* the default 0.7
EdgeSensitivities == {0, 70, 100}

ChecksInit ==
    /\ segmenter = DeliverySegmenter_init(DefaultMinFrames, PageIdleFrames)
    /\ tracker = BallTracker_init(fps, 1, 2)
    /\ \E detections \in CheckDetectionLists, impacts \in CheckImpactLists :
         heap = << <<>>, <<>>, detections, impacts >>
    /\ \E bounce_point \in CheckBouncePoints, deviation_px \in CheckDeviations :
         held = FinalTrajectory(3, 4, bounce_point, deviation_px)
    /\ processor = BallTrackingProcessor_init
    /\ app = LiveTrackingApp_init
    /\ calls = 0
    /\ last_op = "init"
    /\ detection = None
    /\ returned = None
    /\ args = None

\* engine._has_edge(trajectory)
HasEdge ==
    /\ \E edge_sensitivity \in EdgeSensitivities :
         args' = [engine |-> CaughtBehindEngine(
                                 PitchCalibrator(PitchConfig(37), StumpPosition),
                                 edge_sensitivity)]
    /\ returned' = Some(CaughtBehindEngine_has_edge(heap[held.impact_points]))
    /\ last_op' = "caught_behind._has_edge"
    /\ UNCHANGED <<segmenter, tracker, heap, processor, app, calls, detection, held>>

\* engine._hits_wall(trajectory, config)
HitsWall ==
    /\ \E wall_boundary \in WallBoundaries :
         LET config == SessionConfig(wall_boundary) IN
         /\ args' = [config |-> config]
         /\ returned' = Some(CaughtBehindEngine_hits_wall(heap[held.detections],
                                                          heap[held.impact_points], config))
    /\ last_op' = "caught_behind._hits_wall"
    /\ UNCHANGED <<segmenter, tracker, heap, processor, app, calls, detection, held>>

\* engine._no_bounce_between_edge_and_wall(trajectory)
NoBounceBetween ==
    /\ args' = None
    /\ returned' = Some(CaughtBehindEngine_no_bounce_between_edge_and_wall(
                            held, heap[held.impact_points]))
    /\ last_op' = "caught_behind._no_bounce_between_edge_and_wall"
    /\ UNCHANGED <<segmenter, tracker, heap, processor, app, calls, detection, held>>

\* engine._calculate_confidence(has_edge, hits_wall, no_bounce_between,
\* trajectory)
CalculateConfidence ==
    /\ \E has_edge \in BOOLEAN, hits_wall \in BOOLEAN, no_bounce_between \in BOOLEAN :
         /\ args' = [has_edge |-> has_edge, hits_wall |-> hits_wall,
                     no_bounce_between |-> no_bounce_between]
         /\ returned' = Some(CaughtBehindEngine_calculate_confidence(
                                 has_edge, hits_wall, no_bounce_between, held))
    /\ last_op' = "caught_behind._calculate_confidence"
    /\ UNCHANGED <<segmenter, tracker, heap, processor, app, calls, detection, held>>

ChecksNext == HasEdge \/ HitsWall \/ NoBounceBetween \/ CalculateConfidence

ChecksSpec == ChecksInit /\ [][ChecksNext]_vars

----------------------------------------------------------------------------
(* Claims about the checks of CaughtBehindEngine, under ChecksSpec *)

\* whether some impact of the Trajectory held has the type
SomeImpactOf(impact_type) ==
    \E i \in DOMAIN heap[held.impact_points] :
        heap[held.impact_points][i].impact_type = impact_type

\* C23 as stated: hits_wall is true exactly when some impact has type wall
\* or some detection of the trajectory lies inside the configured
\* wall-boundary polygon; a trajectory without impact events and with a
\* detection inside the polygon gives true.
C23_AsStated ==
    last_op = "caught_behind._hits_wall" =>
        ( returned.some <=>
            \/ SomeImpactOf("wall")
            \/ \E i \in DOMAIN heap[held.detections] :
                 CaughtBehindEngine_is_in_wall_boundary(heap[held.detections][i],
                                                        args.config.wall_boundary) )

\* C24 as stated: no_bounce_between is false exactly when a bounce point
\* exists and the trajectory has a bat impact and a wall impact with the
\* bounce frame strictly between their frames, in either order; it is true
\* in every other case, several bat or wall impacts included.
C24_AsStated ==
    last_op = "caught_behind._no_bounce_between_edge_and_wall" =>
        LET impacts == heap[held.impact_points]
            between(a, f, b) == (a < f /\ f < b) \/ (b < f /\ f < a)
        IN  ( ~returned.some <=>
                /\ held.bounce_point # None
                /\ \E i \in DOMAIN impacts, j \in DOMAIN impacts :
                     /\ impacts[i].impact_type = "bat"
                     /\ impacts[j].impact_type = "wall"
                     /\ between(impacts[i].frame_number,
                                held.bounce_point.frame_number,
                                impacts[j].frame_number) )

C26_AsStated ==
    last_op = "caught_behind._calculate_confidence" =>
        LET checks == (IF args.has_edge THEN 1 ELSE 0) + (IF args.hits_wall THEN 1 ELSE 0)
                      + (IF args.no_bounce_between THEN 1 ELSE 0)
            bonus == IF held.deviation_px # NaN /\ held.deviation_px < 5000
                     THEN 10 ELSE 0
        IN  returned.some = Min(100, 30 * checks + bonus)

----------------------------------------------------------------------------
(* detect_impact() on a tracker as one or two updates left it *)

\* where the latest detection is, for the stumps, the stump zone and the
\* wall boundaries of ImpactConfigs: on middle stump; stump_width_px from
\* leg stump and one pixel further; in the stump zone below and above the
\* stumps; below the stumps outside the zone; inside the wall boundary above
\* the stumps; inside the taller wall boundary below the stumps; nowhere
ImpactPositions ==
    { <<12, 10>>, <<18, 10>>, <<19, 10>>, <<12, 30>>, <<15, 4>>, <<20, 30>>,
      <<30, 4>>, <<30, 15>>, <<20, 4>> }

\* the SessionConfig given to detect_impact: that of the page, one without
\* a wall boundary, one whose wall boundary reaches below the stumps
ImpactConfigs ==
    { Config,
      [Config EXCEPT !.wall_boundary = None],
      [Config EXCEPT !.wall_boundary =
          [polygon_points |-> << <<25, 0>>, <<35, 0>>, <<35, 20>>, <<25, 20>> >>]] }

\* the thresholds of recv (30.0) and of the default argument (50.0)
ImpactThresholds == {30, 50}

\* a tracker just constructed, after update() with a first detection, and
\* after update() with a second one
ImpactInit ==
    /\ segmenter = DeliverySegmenter_init(DefaultMinFrames, PageIdleFrames)
    /\ \E n \in 0..2, p1 \in Positions, u1 \in KfOutcomes,
          p2 \in ImpactPositions, u2 \in KfOutcomes :
         LET r0 == [t |-> BallTracker_init(fps, 1, 2), h |-> << <<>>, <<>> >>]
             r1 == BallTracker_update(r0.t, r0.h, BallDetection(0, 0, p1[1], p1[2]), u1)
             r2 == BallTracker_update(r1.t, r1.h, BallDetection(1, 1, p2[1], p2[2]), u2)
             r  == IF n = 0 THEN r0 ELSE IF n = 1 THEN r1 ELSE r2
         IN  tracker = r.t /\ heap = r.h
    /\ processor = BallTrackingProcessor_init
    /\ app = LiveTrackingApp_init
    /\ calls = 0
    /\ last_op = "init"
    /\ detection = None
    /\ returned = None
    /\ held = None
    /\ args = None

\* detect_impact(threshold, calibrator, config), or detect_impact(threshold)
ImpDetectImpact ==
    /\ calls < MaxImpacts
    /\ \E threshold \in ImpactThresholds, config \in ImpactConfigs \cup {None} :
         LET r == BallTracker_detect_impact(tracker, heap, threshold, config) IN
         /\ args' = [threshold |-> threshold, config |-> config]
         /\ heap' = r.h
         /\ returned' = r.ret
    /\ last_op' = "tracker.detect_impact"
    /\ calls' = calls + 1
    /\ UNCHANGED <<segmenter, tracker, processor, app, detection, held>>

ImpactSpec == ImpactInit /\ [][ImpDetectImpact]_vars

\* the type the claim's order gives detection d under config: stumps, pad,
\* ground, wall, unknown
FirstTypeThatApplies(d, config) ==
    LET st == config.batting_stumps
        near_stump(a) == Dist2(d, a) <= st.stump_width_px * st.stump_width_px
        stumps == near_stump(st.off_stump_px) \/ near_stump(st.middle_stump_px)
                  \/ near_stump(st.leg_stump_px)
        pad    == PitchCalibrator_is_in_stump_zone(st, <<d.x, d.y>>, 150)
        ground == /\ d.y > st.off_stump_px[2]
                  /\ d.y > st.middle_stump_px[2]
                  /\ d.y > st.leg_stump_px[2]
        wall   == BallTracker_is_in_boundary(d, config.wall_boundary)
    IN  CASE stumps -> "stumps"
          [] ~stumps /\ pad -> "pad"
          [] ~stumps /\ ~pad /\ ground -> "ground"
          [] ~stumps /\ ~pad /\ ~ground /\ wall -> "wall"
          [] OTHER -> "unknown"

\* C27: a call of detect_impact that sees a velocity change above the
\* threshold, with calibrator and config given, appends exactly one
\* ImpactEvent, of the first type that applies to the latest detection in
\* the order stumps, pad, ground, wall, unknown, and returns it; a call that
\* sees no change above the threshold, or fewer than two velocities, returns
\* None and appends nothing.
C27_ImpactType ==
    [][ last_op' = "tracker.detect_impact" =>
          LET history == tracker.velocity_history
              events  == heap[tracker.impact_events]
              above   == /\ Len(history) >= 2
                         /\ VelocityChange(history) > args'.threshold * 100
          IN  /\ (above /\ args'.config # None) =>
                   /\ heap'[tracker.impact_events] = Append(events, returned')
                   /\ returned'.impact_type =
                        FirstTypeThatApplies(Last(heap[tracker.trajectory_detections]),
                                             args'.config)
                   /\ returned'.frame_number =
                        Last(heap[tracker.trajectory_detections]).frame_number
              /\ ~above =>
                   /\ returned' = None
                   /\ heap'[tracker.impact_events] = events ]_vars

\* an impact below the stumps and inside the wall boundary was appended as
\* a ground impact
C27_Witness ==
    /\ last_op = "tracker.detect_impact"
    /\ returned # None
    /\ returned.impact_type = "ground"
    /\ returned.is_in_boundary
    /\ Last(heap[tracker.impact_events]) = returned

----------------------------------------------------------------------------
(* Impacts recorded by the capture callback, under Spec *)

\* C28 as stated: over the frames recv processes, each calling update()
\* and then detect_impact(), a frame without a detection adds no
\* ImpactEvent, and a frame with a detection adds at most one, so that
\* impact_events never holds two events of the same detection.
C28_AsStated ==
    [][ (last_op' = "recv" /\ calls' = calls + 1) =>
          LET before == heap[tracker.impact_events]
              after  == heap'[tracker'.impact_events]
          IN  /\ detection' = None => after = before
              /\ detection' # None =>
                   \/ after = before
                   \/ /\ Len(after) = Len(before) + 1
                      /\ SubSeq(after, 1, Len(before)) = before
                      /\ Last(after).position_px = <<detection'.x, detection'.y>> ]_vars

----------------------------------------------------------------------------
(* The length and the end of a delivery, under SegSpec.  The frames are    *)
(* numbered by calls; in state tracking consecutive_idle_frames is the      *)
(* number of updates without a detection made since the last detection.    *)

\* the step is a call of update()
SegCalled == calls' = calls + 1 /\ last_op' = "segmenter.update"

\* C29 as stated: the segmenter reports complete only for a delivery whose
\* detections spanned at least min_frames frames; a shorter burst of
\* detections followed by the empty frames does not complete a delivery.
C29_AsStated ==
    [][ ( /\ SegCalled
          /\ segmenter.current_state # "complete"
          /\ segmenter'.current_state = "complete" ) =>
          LET last_detection_frame == calls - segmenter'.consecutive_idle_frames
          IN  last_detection_frame - segmenter.delivery_start_frame + 1
                  >= segmenter.min_frames ]_vars

\* what C30 says of a step from segmenter s to s1 by update(d1), limit
\* being the number of updates without a detection within which a tracked
\* delivery is complete: an update without a detection leaves a tracked
\* delivery tracked or complete and counts; a delivery still tracked has
\* seen fewer than limit of them since its last detection; a complete
\* delivery is not active, stays complete on an update without a detection
\* and is left on an update with one
DeliveryEndsWithin(limit, s, s1, d1) ==
    /\ (s.current_state = "tracking" /\ d1 = None) =>
           /\ s1.current_state \in {"tracking", "complete"}
           /\ s1.consecutive_idle_frames = s.consecutive_idle_frames + 1
    /\ s1.current_state = "tracking" => s1.consecutive_idle_frames < limit
    /\ s1.current_state = "complete" => ~DeliverySegmenter_is_delivery_active(s1)
    /\ (s.current_state = "complete" /\ d1 = None) => s1.current_state = "complete"
    /\ (s.current_state = "complete" /\ d1 # None) => s1.current_state = "idle"

====
